---- MODULE Spec2Model ----
(***************************************************************************)
(* A model of paylogic/dogpile_filesystem: the ranged reentrant file lock  *)
(* (dogpile_filesystem/locking.py) and the file-system cache backend       *)
(* (dogpile_filesystem/backend.py).                                        *)
(*                                                                         *)
(* Part 1 models RangedFileReentrantLock step by step: the intra-process   *)
(* threading.RLock, the _counter field and the kernel's byte-range lock,   *)
(* which POSIX gives to a process, not to a thread.                        *)
(***************************************************************************)
EXTENDS Integers, Sequences, FiniteSets, TLC

VARIABLES
    thread_lock,   \* [pid, lock id] -> state of the lock object's threading.RLock
    counter,       \* [pid, lock id] -> the lock object's _counter
    oslock,        \* lock id -> pid owning the byte range in the kernel, or None
    pc,            \* thread -> position in the call it is making
    arg,           \* thread -> arguments of the call in progress
    holds,         \* thread, lock id -> successful acquires not yet released
    saved,         \* thread -> the lock object as the acquire in progress found it
    last,          \* the lock call that returned last, and what it returned
    payload,       \* key -> the file values/<key>.payload
    metadata,      \* key -> the file values/<key>.metadata
    clock,         \* time.time()
    expiration_time, \* the backend's expiration_time in seconds, or None
    cache_size,    \* the backend's cache_size, or None
    file_movable,  \* the backend's file_movable
    call,          \* thread -> the backend call it is making, with its locals
    out,           \* the backend call that ended last, and its outcome
    nset,          \* number of set calls made so far
    committed,     \* key -> what the last finished locked section left stored
    heap,          \* process, address -> the lock object at that address
    registry,      \* process -> registry.locks as that process's memory has it
    ref,           \* thread -> the lock object its variable refers to
    look,          \* thread -> position in the registry lookup it is making
    rout,          \* the registry or lock-object call that ended last
    forked,        \* whether the parent process has forked its child
    distributed_lock, \* the backend's distributed_lock option
    worker,        \* thread -> the test process it runs: its queue of lock
                   \* identifiers, the locks it appended, its result
    multi,         \* the set_multi, get_multi or delete_multi call in
                   \* progress, and the one that ended last
    fh,            \* registry.py in the first process: _registry, the two
                   \* ProcessLocalRegistry objects, the open file handles
    lock_file,     \* dogpile_cache_fs_backend: [pid, lock id] -> whether the
                   \* lock object's _file is set
    fds,           \* dogpile_cache_file_system_backend: thread, lock id ->
                   \* the _filedescriptor of the thread's RangedFileLock
    type_file      \* dogpile_cache_file_system_backend: key -> whether the
                   \* file values/<key>.type exists

lockVars == <<thread_lock, counter, oslock, pc, arg, holds, saved, last>>

configVars == <<expiration_time, cache_size, file_movable>>

storeVars == <<payload, metadata, clock, expiration_time, cache_size, file_movable,
               call, out, nset, committed>>

regVars == <<heap, registry, ref, look, rout, forked, distributed_lock>>

oldVars == <<lock_file, fds, type_file>>

vars == <<thread_lock, counter, oslock, pc, arg, holds, saved, last,
          payload, metadata, clock, expiration_time, cache_size, file_movable,
          call, out, nset, committed,
          heap, registry, ref, look, rout, forked, distributed_lock, worker,
          multi, fh, oldVars>>

None == "None"

\* An option that is None where the source expects a number or None.
NotSet == -1

\* ------------------------------------------------------------------ bounds

\* How many times one thread may hold one lock at once (nesting of acquire).
MaxDepth == 2

\* ------------------------------------------------------- processes, locks

\* Two processes share the lock files; process p1 runs two threads.
Procs == {"p1", "p2"}

Threads == {"t1", "t2", "u1"}

Pid(t) == IF t = "u1" THEN "p2" ELSE "p1"

\* The keys of the cache, as the region hands them to the backend.
Keys == {"k1", "k2"}

\* utils._key_to_offset: the byte offset a key's locks are taken at.
KeyOffset(k) == IF k = "k1" THEN 0 ELSE 1

\* A lock identifier is (lock file path, offset): registry.locks interns one
\* RangedFileReentrantLock per identifier and process.
RwLock(k) == <<"rw.lock", KeyOffset(k)>>

DogpileLock(k) == <<"dogpile.lock", KeyOffset(k)>>

RwIds == {RwLock(k) : k \in Keys}

DogpileIds == {DogpileLock(k) : k \in Keys}

LockIds == DogpileIds \cup RwIds

\* The two older packages, before any of their code has run: every older
\* lock object has its file, no RangedFileLock has a descriptor, values/ is
\* empty.
OldInit ==
    /\ lock_file = [p \in Procs, id \in LockIds |-> TRUE]
    /\ fds = [t \in Threads |-> [id \in LockIds |-> None]]
    /\ type_file = [k \in Keys |-> FALSE]

\* threading.RLock: owned by one thread, which may take it several times.
RLockFree == [owner |-> None, count |-> 0]

RLockCanTake(l, t) == l.owner = None \/ l.owner = t

RLockTake(l, t) == [owner |-> t, count |-> l.count + 1]

RLockRelease(l) ==
    IF l.count <= 1 THEN RLockFree ELSE [owner |-> l.owner, count |-> l.count - 1]

NoId == <<None, 0>>

NoCall == [op |-> None, id |-> NoId, blocking |-> FALSE]

\* Outcomes of a call: "True", "False", "None" (release) or the error raised.
NoLast == [thread |-> None, op |-> None, id |-> NoId, blocking |-> FALSE, result |-> None]

NoSaved == [counter |-> 0, mutex |-> RLockFree]

Snapshot(p, id) == [counter |-> counter[p, id], mutex |-> thread_lock[p, id]]

\* RangedFileReentrantLock.__init__ for every identifier, in every process.
LockInit ==
    /\ thread_lock = [p \in Procs, id \in LockIds |-> RLockFree]
    /\ counter = [p \in Procs, id \in LockIds |-> 0]
    /\ oslock = [id \in LockIds |-> None]
    /\ pc = [t \in Threads |-> "idle"]
    /\ arg = [t \in Threads |-> NoCall]
    /\ holds = [t \in Threads |-> [id \in LockIds |-> 0]]
    /\ saved = [t \in Threads |-> NoSaved]
    /\ last = NoLast

\* The thread's call on lock `id` returns `result`.
Return(t, op, id, blocking, result) ==
    /\ pc' = [pc EXCEPT ![t] = "idle"]
    /\ arg' = [arg EXCEPT ![t] = NoCall]
    /\ saved' = [saved EXCEPT ![t] = NoSaved]
    /\ last' = [thread |-> t, op |-> op, id |-> id, blocking |-> blocking,
                result |-> result]

\* The thread goes on inside its call.
Goto(t, label, op, id, blocking) ==
    /\ pc' = [pc EXCEPT ![t] = label]
    /\ arg' = [arg EXCEPT ![t] = [op |-> op, id |-> id, blocking |-> blocking]]
    /\ last' = last

\* acquired = self._thread_lock.acquire(blocking), from the call on: a
\* reentrant acquire (counter > 0) skips lockf, adds one to the counter and
\* returns True; "if not blocking and not acquired: return False".
AcquireMutex(t, id, blocking) ==
    LET p == Pid(t)
        l == thread_lock[p, id]
    IN  IF RLockCanTake(l, t)
        THEN /\ thread_lock' = [thread_lock EXCEPT ![p, id] = RLockTake(l, t)]
             /\ IF counter[p, id] = 0
                THEN /\ Goto(t, "acq_lockf", "acquire", id, blocking)
                     /\ saved' = [saved EXCEPT ![t] = Snapshot(p, id)]
                     /\ UNCHANGED <<counter, holds>>
                ELSE /\ counter' = [counter EXCEPT ![p, id] = @ + 1]
                     /\ holds' = [holds EXCEPT ![t][id] = @ + 1]
                     /\ Return(t, "acquire", id, blocking, "True")
             /\ UNCHANGED oslock
        ELSE IF ~blocking
        THEN /\ Return(t, "acquire", id, blocking, "False")
             /\ UNCHANGED <<thread_lock, counter, oslock, holds>>
        ELSE /\ pc[t] = "idle"              \* a blocking call sleeps on the RLock
             /\ Goto(t, "acq_mutex", "acquire", id, blocking)
             /\ UNCHANGED <<thread_lock, counter, oslock, holds, saved>>

\* acquire(blocking) is called by an idle thread.
AcquireCall(t, id, blocking) ==
    /\ pc[t] = "idle"
    /\ holds[t][id] < MaxDepth
    /\ AcquireMutex(t, id, blocking)

\* A thread asleep on the RLock gets it once its owner has released it.
AcquireMutexWake(t) ==
    /\ pc[t] = "acq_mutex"
    /\ RLockCanTake(thread_lock[Pid(t), arg[t].id], t)
    /\ AcquireMutex(t, arg[t].id, arg[t].blocking)

\* The kernel's deadlock detection: the owner of the range has a thread
\* asleep in lockf for a range this process owns.
WouldDeadlock(p, id) ==
    /\ oslock[id] \notin {None, p}
    /\ \E u \in Threads :
          /\ Pid(u) = oslock[id]
          /\ pc[u] = "acq_wait"
          /\ oslock[arg[u].id] = p

\* Mutant: the except branch returns without releasing the RLock.
AcquireLockfFail_KeepsMutex(t, result) ==
    /\ Return(t, "acquire", arg[t].id, arg[t].blocking, result)
    /\ UNCHANGED <<thread_lock, counter, oslock, holds>>

\* lockf failed: the except branch releases the RLock, then returns False
\* (EACCES, EAGAIN) or re-raises.
AcquireLockfFail(t, result) ==
    /\ thread_lock' = [thread_lock EXCEPT ![Pid(t), arg[t].id] = RLockRelease(@)]
    /\ Return(t, "acquire", arg[t].id, arg[t].blocking, result)
    /\ UNCHANGED <<counter, oslock, holds>>

\* lockf took the byte range: the counter goes from 0 to 1, acquire returns True.
AcquireLockfDone(t) ==
    /\ oslock' = [oslock EXCEPT ![arg[t].id] = Pid(t)]
    /\ counter' = [counter EXCEPT ![Pid(t), arg[t].id] = @ + 1]
    /\ holds' = [holds EXCEPT ![t][arg[t].id] = @ + 1]
    /\ Return(t, "acquire", arg[t].id, arg[t].blocking, "True")
    /\ UNCHANGED thread_lock

\* Mutant: the range is locked in shared mode, which another process's
\* lock does not refuse.
AcquireLockf_Shared(t) ==
    /\ pc[t] = "acq_lockf"
    /\ AcquireLockfDone(t)

\* Mutant: lockf(self._file, lockflag) without length and offset, which
\* locks the whole file.
AcquireLockf_WholeFile(t) ==
    LET id == arg[t].id
        p == Pid(t)
    IN  /\ pc[t] = "acq_lockf"
        /\ IF \A j \in LockIds : j[1] = id[1] => oslock[j] \in {None, p}
           THEN AcquireLockfDone(t)
           ELSE IF ~arg[t].blocking
           THEN AcquireLockfFail(t, "False")
           ELSE IF WouldDeadlock(p, id)
           THEN AcquireLockfFail(t, "EDEADLK")
           ELSE /\ Goto(t, "acq_wait", "acquire", id, TRUE)
                /\ UNCHANGED <<thread_lock, counter, oslock, holds, saved>>

\* Mutant: the except branch returns False for every errno.
AcquireLockf_Swallows(t) ==
    LET id == arg[t].id
        p == Pid(t)
    IN  /\ pc[t] = "acq_lockf"
        /\ IF oslock[id] \in {None, p}
           THEN AcquireLockfDone(t)
           ELSE IF ~arg[t].blocking
           THEN AcquireLockfFail(t, "False")
           ELSE IF WouldDeadlock(p, id)
           THEN AcquireLockfFail(t, "False")
           ELSE /\ Goto(t, "acq_wait", "acquire", id, TRUE)
                /\ UNCHANGED <<thread_lock, counter, oslock, holds, saved>>

\* self._module.lockf(self._file, lockflag, 1, self._offset) with counter = 0.
AcquireLockf(t) ==
    LET id == arg[t].id
        p == Pid(t)
    IN  /\ pc[t] = "acq_lockf"
        /\ IF oslock[id] \in {None, p}
           THEN AcquireLockfDone(t)
           ELSE IF ~arg[t].blocking
           THEN AcquireLockfFail(t, "False")
           ELSE IF WouldDeadlock(p, id)
           THEN AcquireLockfFail(t, "EDEADLK")
           ELSE /\ Goto(t, "acq_wait", "acquire", id, TRUE)
                /\ UNCHANGED <<thread_lock, counter, oslock, holds, saved>>

\* A blocking lockf wakes up once the other process has dropped the range.
AcquireWake(t) ==
    /\ pc[t] = "acq_wait"
    /\ oslock[arg[t].id] = None
    /\ AcquireLockfDone(t)

\* Mutant: release unlocks the byte range whatever the counter.
ReleaseCall_AlwaysUnlocks(t, id) ==
    LET p == Pid(t)
    IN  /\ pc[t] = "idle"
        /\ holds[t][id] > 0
        /\ counter' = [counter EXCEPT ![p, id] = @ - 1]
        /\ holds' = [holds EXCEPT ![t][id] = @ - 1]
        /\ oslock' = [oslock EXCEPT ![id] = IF @ = p THEN None ELSE @]
        /\ IF counter[p, id] - 1 > 0
           THEN /\ thread_lock' = [thread_lock EXCEPT ![p, id] = RLockRelease(@)]
                /\ Return(t, "release", id, FALSE, None)
           ELSE /\ Goto(t, "rel_mutex", "release", id, FALSE)
                /\ UNCHANGED <<thread_lock, saved>>

\* release(): self._counter -= 1; with the counter still positive only the
\* RLock is released, else the byte range is unlocked with lockf(LOCK_UN)
\* and the RLock is released after it, in the finally clause.
ReleaseCall(t, id) ==
    LET p == Pid(t)
    IN  /\ pc[t] = "idle"
        /\ holds[t][id] > 0
        /\ counter' = [counter EXCEPT ![p, id] = @ - 1]
        /\ holds' = [holds EXCEPT ![t][id] = @ - 1]
        /\ IF counter[p, id] - 1 > 0
           THEN /\ thread_lock' = [thread_lock EXCEPT ![p, id] = RLockRelease(@)]
                /\ Return(t, "release", id, FALSE, None)
                /\ UNCHANGED oslock
           ELSE /\ oslock' = [oslock EXCEPT ![id] = IF @ = p THEN None ELSE @]
                /\ Goto(t, "rel_mutex", "release", id, FALSE)
                /\ UNCHANGED <<thread_lock, saved>>

\* finally: self._thread_lock.release()
\* release that returns without giving the RLock back.
ReleaseMutex_KeepsRLock(t) ==
    /\ pc[t] = "rel_mutex"
    /\ thread_lock' = thread_lock
    /\ Return(t, "release", arg[t].id, FALSE, None)
    /\ UNCHANGED <<counter, oslock, holds>>

ReleaseMutex(t) ==
    /\ pc[t] = "rel_mutex"
    /\ thread_lock' = [thread_lock EXCEPT ![Pid(t), arg[t].id] = RLockRelease(@)]
    /\ Return(t, "release", arg[t].id, FALSE, None)
    /\ UNCHANGED <<counter, oslock, holds>>

\* ------------------------------------------------------------- registry
(***************************************************************************)
(* Part 1b models registry.locks, the ProcessLocalRegistry that interns    *)
(* the lock objects: its _pid and registry fields, the weak references of  *)
(* dogpile's NameRegistry, fork(), and the calls on a lock object that a   *)
(* thread got from it.                                                     *)
(***************************************************************************)

\* The process that forks, and its child, in which two threads run.
Parent == "p2"

Child == "p1"

\* The identifiers that get_mutex looks up.
RegIds == DogpileIds

\* Addresses of lock objects in the memory of one process: room for one
\* object per thread's variable and per registry entry.
Objs == 1..(Cardinality(Threads) + Cardinality(RegIds))

\* An address that holds no lock object.
NoObj == [id |-> NoId, pid |-> None, counter |-> 0, mutex |-> RLockFree]

\* A thread's variable: the address it refers to, and whether the thread
\* got it from a lookup or had it when the process forked.
NoRef == [obj |-> 0, by |-> None]

NoLook == [at |-> "idle", key |-> None]

\* The call that ended last: for a lookup the object returned, its _pid and
\* _counter, whether it was the first lookup of the identifier to return in
\* this process and whether it followed the loss of a held object; for a
\* call on a lock object, `os` is the owner of the byte range before it.
NoRout == [thread |-> None, op |-> None, key |-> None, id |-> NoId, obj |-> 0,
           result |-> None, pid |-> None, counter |-> 0, first |-> FALSE,
           leaked |-> FALSE, os |-> None]

\* ProcessLocalRegistry.__init__: _pid = None and registry = None; no lock
\* object exists yet. `seen` are the identifiers whose lookup has returned in
\* this process, `leaked` those whose held object died since, `kept` the
\* objects that the frames of the code that forked still refer to.
NoRegistry == [pid |-> None, made |-> FALSE, names |-> [id \in RegIds |-> 0],
               seen |-> {}, leaked |-> {}, kept |-> {}]

\* distributed_lock as a caller gives it: True, False or None.
DistributedLockValues == {"True", "False", None}

\* A thread that runs no test process.
NoWorker == [queue |-> <<>>, locks |-> <<>>, raised |-> FALSE, result |-> None]

RegInit ==
    /\ worker = [t \in Threads |-> NoWorker]
    /\ heap = [p \in Procs |-> [o \in Objs |-> NoObj]]
    /\ registry = [p \in Procs |-> NoRegistry]
    /\ ref = [t \in Threads |-> NoRef]
    /\ look = [t \in Threads |-> NoLook]
    /\ rout = NoRout
    /\ forked = FALSE
    /\ distributed_lock = "True"

\* The threads that run: those of the parent, and after fork() the child's.
Runs(t) == Pid(t) = Parent \/ forked

\* The threads of process p whose variable refers to address o.
Referrers(p, o) == {t \in Threads : Pid(t) = p /\ ref[t].obj = o}

\* The address a new object is put at.
FreeAddress(p) == CHOOSE o \in Objs :
    /\ heap[p][o].pid = None
    /\ \A q \in Objs : heap[p][q].pid = None => o <= q

\* RawFSBackend.get_mutex(key): None unless distributed_lock is true; else
\* registry.locks.get((dogpile_lock_path, offset)), whose first lines read
\* os.getpid() and compare it with self._pid.
GetMutex(t, k) ==
    LET p == Pid(t)
    IN  /\ Runs(t)
        /\ look[t].at = "idle"
        /\ ref[t].obj = 0
        /\ IF distributed_lock = "True"
           THEN /\ look' = [look EXCEPT ![t] =
                      [at |-> IF registry[p].pid # p THEN "reg_new" ELSE "reg_get",
                       key |-> k]]
                /\ rout' = rout
           ELSE /\ rout' = [NoRout EXCEPT !.thread = t, !.op = "get_mutex", !.key = k]
                /\ look' = look
        /\ UNCHANGED <<heap, registry, ref, forked, distributed_lock, oslock>>

\* "self._pid, self.registry = current_pid, NameRegistry(...)": the first
\* store of the assignment.
RegStorePid(t) ==
    LET p == Pid(t)
    IN  /\ look[t].at = "reg_new"
        /\ registry' = [registry EXCEPT ![p].pid = p]
        /\ look' = [look EXCEPT ![t].at = "reg_store"]
        /\ UNCHANGED <<heap, ref, rout, forked, distributed_lock, oslock>>

\* The second store: self.registry is the new, empty NameRegistry.
RegStoreRegistry(t) ==
    LET p == Pid(t)
    IN  /\ look[t].at = "reg_store"
        /\ registry' = [registry EXCEPT ![p].made = TRUE,
                                        ![p].names = [id \in RegIds |-> 0]]
        /\ look' = [look EXCEPT ![t].at = "reg_get"]
        /\ UNCHANGED <<heap, ref, rout, forked, distributed_lock, oslock>>

\* "return self.registry.get(identifier)": the object the NameRegistry has
\* for the identifier, or a new RangedFileReentrantLock (_lock_creator) that
\* it keeps a weak reference to; None has no get.
RegGet(t) ==
    LET p == Pid(t)
        k == look[t].key
        id == DogpileLock(k)
        r == registry[p]
        o == IF r.names[id] # 0 THEN r.names[id] ELSE FreeAddress(p)
        obj == IF r.names[id] # 0 THEN heap[p][o]
               ELSE [id |-> id, pid |-> p, counter |-> 0, mutex |-> RLockFree]
    IN  /\ look[t].at = "reg_get"
        /\ look' = [look EXCEPT ![t] = NoLook]
        /\ IF ~r.made
           THEN /\ rout' = [NoRout EXCEPT !.thread = t, !.op = "get_mutex", !.key = k,
                                          !.id = id, !.result = "AttributeError",
                                          !.first = id \notin r.seen,
                                          !.leaked = id \in r.leaked]
                /\ UNCHANGED <<heap, registry, ref>>
           ELSE /\ heap' = [heap EXCEPT ![p][o] = obj]
                /\ registry' = [registry EXCEPT ![p].names[id] = o,
                                                ![p].seen = @ \cup {id},
                                                ![p].leaked = @ \ {id}]
                /\ ref' = [ref EXCEPT ![t] = [obj |-> o, by |-> "lookup"]]
                /\ rout' = [NoRout EXCEPT !.thread = t, !.op = "get_mutex", !.key = k,
                                          !.id = id, !.obj = o, !.result = "lock",
                                          !.pid = obj.pid, !.counter = obj.counter,
                                          !.first = id \notin r.seen,
                                          !.leaked = id \in r.leaked,
                                          !.os = oslock[id]]
        /\ UNCHANGED <<forked, distributed_lock, oslock>>

\* "del mutex": the thread's reference goes; the object dies with its last
\* reference (release is not called), and the NameRegistry, whose reference
\* is weak, forgets it. The byte range stays locked: the file stays open.
Drop(t) ==
    LET p == Pid(t)
        o == ref[t].obj
        obj == heap[p][o]
        dies == Referrers(p, o) = {t} /\ o \notin registry[p].kept
    IN  /\ Runs(t)
        /\ look[t].at = "idle"
        /\ o # 0
        /\ ref' = [ref EXCEPT ![t] = NoRef]
        /\ rout' = [NoRout EXCEPT !.thread = t, !.op = "del", !.obj = o]
        /\ heap' = IF dies THEN [heap EXCEPT ![p][o] = NoObj] ELSE heap
        /\ registry' =
             IF dies
             THEN [registry EXCEPT
                     ![p].names = [id \in RegIds |-> IF @[id] = o THEN 0 ELSE @[id]],
                     ![p].leaked = IF obj.counter > 0 THEN @ \cup {obj.id} ELSE @]
             ELSE registry
        /\ UNCHANGED <<look, forked, distributed_lock, oslock>>

\* The outcome of a call on the object that the thread's variable refers to.
ObjReturn(t, op, result) ==
    [NoRout EXCEPT !.thread = t, !.op = op, !.id = heap[Pid(t)][ref[t].obj].id,
                   !.obj = ref[t].obj, !.result = result,
                   !.pid = heap[Pid(t)][ref[t].obj].pid,
                   !.counter = heap[Pid(t)][ref[t].obj].counter,
                   !.os = oslock[heap[Pid(t)][ref[t].obj].id]]

\* Mutant: acquire does not call _assert_pid.
ObjAcquire_NoAssertPid(t) ==
    LET p == Pid(t)
        o == ref[t].obj
        obj == heap[p][o]
    IN  /\ Runs(t)
        /\ look[t].at = "idle"
        /\ o # 0
        /\ obj.counter < MaxDepth
        /\ IF ~RLockCanTake(obj.mutex, t)
           THEN /\ rout' = ObjReturn(t, "acquire", "False")
                /\ UNCHANGED <<heap, oslock>>
           ELSE IF obj.counter = 0 /\ oslock[obj.id] \notin {None, p}
           THEN /\ rout' = ObjReturn(t, "acquire", "False")
                /\ UNCHANGED <<heap, oslock>>
           ELSE /\ heap' = [heap EXCEPT ![p][o].counter = @ + 1,
                                        ![p][o].mutex = RLockTake(@, t)]
                /\ oslock' = [oslock EXCEPT ![obj.id] = p]
                /\ rout' = ObjReturn(t, "acquire", "True")
        /\ UNCHANGED <<registry, ref, look, forked, distributed_lock>>

\* acquire(blocking=False) on the thread's lock object, as one step:
\* _assert_pid, the RLock, lockf with LOCK_NB when the counter is 0 (False
\* and the RLock released when the range is another process's), the counter.
ObjAcquire(t) ==
    LET p == Pid(t)
        o == ref[t].obj
        obj == heap[p][o]
    IN  /\ Runs(t)
        /\ look[t].at = "idle"
        /\ o # 0
        /\ obj.counter < MaxDepth
        /\ IF obj.pid # p
           THEN /\ rout' = ObjReturn(t, "acquire", "RuntimeError")
                /\ UNCHANGED <<heap, oslock>>
           ELSE IF ~RLockCanTake(obj.mutex, t)
           THEN /\ rout' = ObjReturn(t, "acquire", "False")
                /\ UNCHANGED <<heap, oslock>>
           ELSE IF obj.counter = 0 /\ oslock[obj.id] \notin {None, p}
           THEN /\ rout' = ObjReturn(t, "acquire", "False")
                /\ UNCHANGED <<heap, oslock>>
           ELSE /\ heap' = [heap EXCEPT ![p][o].counter = @ + 1,
                                        ![p][o].mutex = RLockTake(@, t)]
                /\ oslock' = [oslock EXCEPT ![obj.id] = p]
                /\ rout' = ObjReturn(t, "acquire", "True")
        /\ UNCHANGED <<registry, ref, look, forked, distributed_lock>>

\* release() on the thread's lock object by the thread that holds it, or by
\* a thread of a process that did not create the object: _assert_pid, the
\* counter, lockf(LOCK_UN) at 0, the RLock.
ObjRelease(t) ==
    LET p == Pid(t)
        o == ref[t].obj
        obj == heap[p][o]
    IN  /\ Runs(t)
        /\ look[t].at = "idle"
        /\ o # 0
        /\ IF obj.pid # p
           THEN /\ rout' = ObjReturn(t, "release", "RuntimeError")
                /\ UNCHANGED <<heap, oslock>>
           ELSE /\ obj.mutex.owner = t
                /\ obj.counter > 0
                /\ heap' = [heap EXCEPT ![p][o].counter = @ - 1,
                                        ![p][o].mutex = RLockRelease(@)]
                /\ oslock' = [oslock EXCEPT ![obj.id] =
                                 IF obj.counter = 1 /\ @ = p THEN None ELSE @]
                /\ rout' = ObjReturn(t, "release", None)
        /\ UNCHANGED <<registry, ref, look, forked, distributed_lock>>

\* os.fork() by the parent's thread: the child's memory is a copy of the
\* parent's (lock objects, registry, the forking thread's variable, which
\* the frames below the child's code keep); byte range locks are not
\* inherited.
Fork ==
    /\ ~forked
    /\ \A t \in Threads : look[t].at = "idle"
    /\ forked' = TRUE
    /\ heap' = [heap EXCEPT ![Child] = heap[Parent]]
    /\ registry' = [registry EXCEPT ![Child] =
                       [registry[Parent] EXCEPT !.seen = {}, !.leaked = {},
                                                !.kept = {ref["u1"].obj} \ {0}]]
    /\ ref' = [t \in Threads |->
                 IF t = "t1" /\ ref["u1"].obj # 0
                 THEN [obj |-> ref["u1"].obj, by |-> "fork"]
                 ELSE IF Pid(t) = Child THEN NoRef ELSE ref[t]]
    /\ rout' = [NoRout EXCEPT !.op = "fork"]
    /\ UNCHANGED <<look, distributed_lock, oslock>>

\* The lock variables that the registry's actions leave alone.
lockRest == <<thread_lock, counter, pc, arg, holds, saved, last>>

\* ---------------------------------------------------------------- store
(***************************************************************************)
(* Part 2 models RawFSBackend: the two files of a key under values/, the   *)
(* clock, and get, set, delete and prune as the sequences of file-system   *)
(* calls and lock calls they make.                                         *)
(***************************************************************************)

\* Largest value of time.time() the model lets the clock reach.
MaxTime == 4

\* How many set calls one behaviour makes.
MaxSets == 2

\* Size of a pickled Metadata record, in the unit payload bytes are counted in.
MetaSize == 1

\* Bytes that copyfileobj moves at a time (1024 * 1024 in the source).
ChunkLen == 1

\* time.time() when the model starts: later than every expiration time, as
\* the epoch (the last-modified time of a missing file) is in practice.
InitClock == 2

\* A missing file.
NoPayload == [exists |-> FALSE, data |-> <<>>, sid |-> 0, mtime |-> 0]

NoMetadata == [exists |-> FALSE, original_file_offset |-> 0,
               dogpile_metadata |-> None, sid |-> 0, mtime |-> 0]

\* The streams callers hand to set: the bytes of the file, the position
\* tell() reports, and what the stream's name attribute is: the path of the
\* file ("path") or a file descriptor number (os.fdopen, "fd").
Datas == {<<1>>, <<2, 3>>}

Streams == {s \in [data : Datas, pos : 0..1, name : {"path", "fd"}] : TRUE}

\* What set is given: a stream, or CachedValue(stream, metadata).
Values == [payload : Streams, metadata : {None, "meta"}]

NoValue == [payload |-> [data |-> <<>>, pos |-> 0, name |-> None], metadata |-> None]

\* keys_with_desc of a key that was not listed.
NoDesc == [last_modified |-> 0, size |-> 0]

\* What the files of a key hold, last-modified times left out.
NoEntry == [payload |-> <<>>, metadata |-> <<>>]

NoFiles == [k \in Keys |-> NoEntry]

\* The call that ended before a set, if it was a set of the same key and
\* value by the same thread: how it ended and the files it left.
NoPrior == [kind |-> None, files |-> NoFiles]

\* A thread that is making no backend call; `tries` counts the delete
\* attempts of the LRU pass of the prune in progress.
Idle == [name |-> None, at |-> "idle", key |-> None, now |-> 0, value |-> NoValue,
         sid |-> 0, built |-> 0, pnow |-> 0, desc |-> [k \in Keys |-> NoDesc],
         listed |-> {}, todo |-> {}, order |-> <<>>, refused |-> {},
         tries |-> 0, prior |-> NoPrior, attempt |-> None]

\* What a key holds after a locked section: nothing, or the value of a set
\* that went through; `asked` is the value of the last set on the key that
\* left its locked section, whether it went through or raised.
NoCommit == [kind |-> "miss", sid |-> 0, value |-> NoValue, mtime |-> 0,
             asked |-> NoValue, asked_now |-> 0]

\* The outcome of a backend call; `expect` and `total` are taken when it is
\* made: what the key held, and the size of the files in values/.
NoOut == [thread |-> None, name |-> None, key |-> None, kind |-> None, now |-> 0,
          data |-> <<>>, pos |-> 0, dogpile_metadata |-> None, psid |-> 0, msid |-> 0,
          mtime |-> 0, sid |-> 0, value |-> NoValue, expect |-> NoCommit,
          listed |-> {}, refused |-> {}, desc |-> [k \in Keys |-> NoDesc],
          total |-> 0, left |-> {}, holders |-> {}, found |-> {},
          tries |-> 0, prior |-> NoPrior, files |-> NoFiles]

\* The two ProcessLocalRegistry objects of registry.py.
Regs == {"locks", "file_lock"}

\* Numbers for the NameRegistry objects and for the file handles that a
\* process makes: each of two threads can make one per registry, and open
\* the lock file once.
Insts == 1..4

Handles == 1..2

\* A thread in registry.py: where it is, the registry it is in, the
\* NameRegistry it read out of each, the handle in its local variable, and
\* the handle of the lock object it got (0: none).
NoFhThread == [at |-> "idle", reg |-> None, inst |-> [r \in Regs |-> 0],
               h |-> 0, obj |-> 0, error |-> None]

\* registry.py when the module is loaded: no handle in _registry, _pid and
\* registry of both ProcessLocalRegistry objects None, no NameRegistry
\* made, no file open.
NoFh == [registry |-> 0,
         pid |-> [r \in Regs |-> None],
         reg |-> [r \in Regs |-> 0],
         insts |-> 0,
         mutex |-> [i \in Insts |-> None],
         values |-> [i \in Insts |-> 0],
         open |-> {},
         handles |-> 0,
         closed |-> 0,
         th |-> [t \in {"t1", "t2"} |-> NoFhThread]]

\* A get that get_multi made: what it returned.
NoGot == [kind |-> None, data |-> <<>>, pos |-> 0, dogpile_metadata |-> None]

\* A set_multi, get_multi or delete_multi call: the keys in the order of the
\* loop, those still to come, the mapping of set_multi, the results that
\* get_multi has gathered, the files in values/ when it was called, and
\* whether a set of set_multi started with more bytes in values/ than the
\* byte budget; `prev` is the set_multi that ended just before a get_multi.
NoMapping == [k \in Keys |-> NoValue]

NoPrev == [kind |-> None, keys |-> <<>>, mapping |-> NoMapping, over |-> FALSE, now |-> 0]

NoRun == [thread |-> None, name |-> None, kind |-> None, keys |-> <<>>, rest |-> <<>>,
          mapping |-> NoMapping, got |-> <<>>, waiting |-> FALSE, over |-> FALSE,
          files0 |-> NoFiles, files |-> NoFiles, now |-> 0, sid |-> 0, prev |-> NoPrev]

NoMulti == [run |-> NoRun, done |-> NoRun]

\* RawFSBackend.__init__ on an empty base_dir; the options are set by the
\* specification.
StoreInit ==
    /\ payload = [k \in Keys |-> NoPayload]
    /\ metadata = [k \in Keys |-> NoMetadata]
    /\ clock = InitClock
    /\ call = [t \in Threads |-> Idle]
    /\ out = NoOut
    /\ nset = 0
    /\ committed = [k \in Keys |-> NoCommit]
    /\ multi = NoMulti
    /\ fh = NoFh
    /\ OldInit

\* utils._get_size(utils.stat_or_warn(path)): 0 for a file that is missing.
PayloadSize(k) == IF payload[k].exists THEN Len(payload[k].data) ELSE 0

MetadataSize(k) == IF metadata[k].exists THEN MetaSize ELSE 0

\* utils._get_last_modified(stat): the epoch for a file that is missing.
LastModified(k) == IF payload[k].exists THEN payload[k].mtime ELSE 0

\* RawFSBackend._list_keys_with_desc: the keys that have a file in values/,
\* each with the payload's last-modified time and the size of its files.
ListedKeys == {k \in Keys : payload[k].exists \/ metadata[k].exists}

KeysWithDesc ==
    [k \in Keys |-> IF k \in ListedKeys
                    THEN [last_modified |-> LastModified(k),
                          size |-> PayloadSize(k) + MetadataSize(k)]
                    ELSE NoDesc]

\* The contents of values/: for every key the bytes of its payload file and
\* the fields of its metadata file, each as a sequence that is empty when
\* the file is missing.
Files ==
    [k \in Keys |->
        [payload |-> IF payload[k].exists THEN <<payload[k].data>> ELSE <<>>,
         metadata |-> IF metadata[k].exists
                      THEN <<[original_file_offset |-> metadata[k].original_file_offset,
                              dogpile_metadata |-> metadata[k].dogpile_metadata]>>
                      ELSE <<>>]]

\* Mutant: get without the test of the payload's age.
GetFinds_NoTtl(k, now) ==
    /\ payload[k].exists
    /\ metadata[k].exists

\* get, lines 116-121: both files exist, and with a TTL the payload's
\* last-modified time is not older than now_timestamp minus the TTL.
GetFinds(k, now) ==
    /\ payload[k].exists
    /\ metadata[k].exists
    /\ expiration_time # NotSet => ~(LastModified(k) < now - expiration_time)

\* Mutant: the TTL pass also takes an entry that is exactly TTL old.
ExpiredKeys_Inclusive(desc, listed, now) ==
    IF expiration_time = NotSet
    THEN {}
    ELSE {k \in listed : ~(desc[k].last_modified > now - expiration_time)}

\* The keys of the listing that the TTL pass of prune takes for expired.
ExpiredKeys(desc, listed, now) ==
    IF expiration_time = NotSet
    THEN {}
    ELSE {k \in listed : ~(desc[k].last_modified >= now - expiration_time)}

\* The sequences without repetition of the elements of S.
RECURSIVE Orderings(_)
Orderings(S) ==
    IF S = {} THEN {<<>>}
    ELSE UNION {{<<k>> \o rest : rest \in Orderings(S \ {k})} : k \in S}

\* sorted(remaining_keys, key=last_modified, reverse=True): newest first; the
\* order of keys with equal times is the set's iteration order, which is any.
KeysByNewest(S, desc) ==
    {o \in Orderings(S) :
        \A i \in 1..Len(o) : \A j \in 1..Len(o) :
            i < j => desc[o[i]].last_modified >= desc[o[j]].last_modified}

\* sum((keys_with_desc[key]['size'] for key in keys_by_newest), 0)
RECURSIVE SumSizes(_, _)
SumSizes(desc, order) ==
    IF order = <<>> THEN 0 ELSE desc[Head(order)].size + SumSizes(desc, Tail(order))

\* rw_lock.acquire(blocking=False) as attempt_delete_key finds it: the RLock
\* is free or the thread's own, and the byte range is not another process's.
CanAcquireNow(t, id) ==
    /\ RLockCanTake(thread_lock[Pid(t), id], t)
    /\ (counter[Pid(t), id] > 0 \/ oslock[id] \in {None, Pid(t)})

\* utils.remove_or_warn(path): the file is gone afterwards; when it cannot
\* be removed because it is missing, that is a warning, not an exception.
RemoveOrWarn(file, missing) == missing

\* Mutant: _delete_key_files that removes the payload file only.
DeleteKeyFiles_PayloadOnly(D) ==
    /\ payload' = [k \in Keys |-> IF k \in D THEN NoPayload ELSE payload[k]]
    /\ metadata' = metadata
    /\ committed' = [k \in Keys |-> IF k \in D THEN NoCommit ELSE committed[k]]

\* utils.remove_or_warn on both files of the keys in D (_delete_key_files):
\* a file that is missing is left missing.
DeleteKeyFiles(D) ==
    /\ payload' = [k \in Keys |-> IF k \in D THEN RemoveOrWarn(payload[k], NoPayload)
                                   ELSE payload[k]]
    /\ metadata' = [k \in Keys |-> IF k \in D THEN RemoveOrWarn(metadata[k], NoMetadata)
                                    ELSE metadata[k]]
    /\ committed' = [k \in Keys |-> IF k \in D THEN NoCommit ELSE committed[k]]

\* Mutant: attempt_delete_key removes nothing.
AttemptDeleteKey_Noop(t, k) ==
    UNCHANGED <<payload, metadata, committed>>

\* RawFSBackend.attempt_delete_key: the files go if the lock is obtained
\* without waiting, and the lock is released again; else nothing happens.
AttemptDeleteKey(t, k) ==
    IF CanAcquireNow(t, RwLock(k))
    THEN DeleteKeyFiles({k})
    ELSE UNCHANGED <<payload, metadata, committed>>

\* The call of thread t ends with outcome o.
Done(t, o) ==
    /\ call' = [call EXCEPT ![t] = Idle]
    /\ out' = o

\* The size of all the files in values/.
TotalSize == SumSizes(KeysWithDesc, CHOOSE o \in Orderings(ListedKeys) : TRUE)

\* The keys whose byte range in rw.lock some process has locked.
LockedKeys == {k \in Keys : oslock[RwLock(k)] # None}

\* prune() returns: to its caller, or into set, which goes on.
PruneReturn(t, c) ==
    /\ call' = [call EXCEPT ![t] = IF c.name = "set"
                                   THEN [c EXCEPT !.at = "set_build"]
                                   ELSE Idle]
    /\ out' = [NoOut EXCEPT !.thread = t, !.name = "prune", !.kind = "ok",
                            !.now = c.pnow, !.listed = c.listed,
                            !.refused = c.refused, !.desc = c.desc,
                            !.total = TotalSize, !.left = ListedKeys,
                            !.holders = LockedKeys,
                            !.found = {k \in Keys : GetFinds(k, c.pnow)},
                            !.tries = c.tries, !.files = Files]

\* prune(), first lines: now_timestamp, the listing, the expired keys and the
\* sorted list of the others. c is the call record of the caller.
PruneList(t, c) ==
    LET desc == KeysWithDesc
        listed == ListedKeys
        expired == ExpiredKeys(desc, listed, clock)
    IN  \E order \in KeysByNewest(listed \ expired, desc) :
            call' = [call EXCEPT ![t] = [c EXCEPT !.at = "prune_ttl", !.pnow = clock,
                                                 !.desc = desc, !.listed = listed, !.todo = expired,
                                                 !.order = order, !.refused = {},
                                                 !.tries = 0]]

\* prune() is called.
PruneCall(t) ==
    /\ call[t].at = "idle"
    /\ pc[t] = "idle"
    /\ PruneList(t, [Idle EXCEPT !.name = "prune", !.now = clock])
    /\ UNCHANGED <<payload, metadata, clock, configVars, out, nset, committed>>
    /\ UNCHANGED lockVars

\* The TTL pass: one expired key is attempted; it leaves the working set
\* whether or not it was removed.
PruneTtl(t) ==
    LET c == call[t]
    IN  /\ c.at = "prune_ttl"
        /\ \E k \in c.todo :
              /\ AttemptDeleteKey(t, k)
              /\ call' = [call EXCEPT ![t] =
                            [c EXCEPT !.todo = @ \ {k},
                                      !.refused = IF CanAcquireNow(t, RwLock(k))
                                                  THEN @ ELSE @ \cup {k}]]
        /\ UNCHANGED <<clock, configVars, out, nset>>
        /\ UNCHANGED lockVars

\* Mutant: a key whose delete attempt was refused stays in the list, and the
\* loop tries it again.
PruneLru_Retry(t) ==
    LET c == call[t]
    IN  /\ c.at = "prune_ttl"
        /\ c.todo = {}
        /\ IF cache_size # NotSet /\ SumSizes(c.desc, c.order) > cache_size
           THEN LET k == c.order[Len(c.order)]
                IN  /\ AttemptDeleteKey(t, k)
                    /\ call' = [call EXCEPT ![t] =
                          [c EXCEPT !.order = IF CanAcquireNow(t, RwLock(k))
                                              THEN SubSeq(@, 1, Len(@) - 1) ELSE @,
                                    !.refused = IF CanAcquireNow(t, RwLock(k))
                                                THEN @ ELSE @ \cup {k},
                                    !.tries = IF @ > Cardinality(Keys) THEN @ ELSE @ + 1]]
                    /\ out' = out
           ELSE /\ PruneReturn(t, c)
                /\ UNCHANGED <<payload, metadata, committed>>
        /\ UNCHANGED <<clock, configVars, nset>>
        /\ UNCHANGED lockVars

\* Mutant: a cache_size of None counts as a budget of 0 bytes.
PruneLru_NoneIsZero(t) ==
    LET c == call[t]
    IN  /\ c.at = "prune_ttl"
        /\ c.todo = {}
        /\ IF SumSizes(c.desc, c.order) > (IF cache_size = NotSet THEN 0 ELSE cache_size)
           THEN LET k == c.order[Len(c.order)]
                IN  /\ AttemptDeleteKey(t, k)
                    /\ call' = [call EXCEPT ![t] =
                          [c EXCEPT !.order = SubSeq(@, 1, Len(@) - 1),
                                    !.refused = IF CanAcquireNow(t, RwLock(k))
                                                THEN @ ELSE @ \cup {k},
                                    !.tries = @ + 1]]
                    /\ out' = out
           ELSE /\ PruneReturn(t, c)
                /\ UNCHANGED <<payload, metadata, committed>>
        /\ UNCHANGED <<clock, configVars, nset>>
        /\ UNCHANGED lockVars

\* Mutant: the while loop pops the newest key, not the oldest.
PruneLru_PopsNewest(t) ==
    LET c == call[t]
    IN  /\ c.at = "prune_ttl"
        /\ c.todo = {}
        /\ IF cache_size = NotSet
           THEN /\ PruneReturn(t, c)
                /\ UNCHANGED <<payload, metadata, committed>>
           ELSE IF SumSizes(c.desc, c.order) > cache_size
           THEN IF c.order = <<>>
                THEN /\ Done(t, [NoOut EXCEPT !.thread = t, !.name = c.name,
                                              !.kind = "IndexError"])
                     /\ UNCHANGED <<payload, metadata, committed>>
                ELSE LET k == c.order[1]
                     IN  /\ AttemptDeleteKey(t, k)
                         /\ call' = [call EXCEPT ![t] =
                               [c EXCEPT !.order = Tail(@),
                                         !.refused = IF CanAcquireNow(t, RwLock(k))
                                                     THEN @ ELSE @ \cup {k},
                                         !.tries = @ + 1]]
                         /\ out' = out
           ELSE /\ PruneReturn(t, c)
                /\ UNCHANGED <<payload, metadata, committed>>
        /\ UNCHANGED <<clock, configVars, nset>>
        /\ UNCHANGED lockVars

\* The LRU pass: "if self.cache_size is None: return", then the while loop,
\* one turn of it: the oldest key still in the list is popped and attempted.
PruneLru(t) ==
    LET c == call[t]
    IN  /\ c.at = "prune_ttl"
        /\ c.todo = {}
        /\ IF cache_size = NotSet
           THEN /\ PruneReturn(t, c)
                /\ UNCHANGED <<payload, metadata, committed>>
           ELSE IF SumSizes(c.desc, c.order) > cache_size
           THEN IF c.order = <<>>
                THEN /\ Done(t, [NoOut EXCEPT !.thread = t, !.name = c.name,
                                              !.kind = "IndexError"])
                     /\ UNCHANGED <<payload, metadata, committed>>
                ELSE LET k == c.order[Len(c.order)]
                     IN  /\ AttemptDeleteKey(t, k)
                         /\ call' = [call EXCEPT ![t] =
                               [c EXCEPT !.order = SubSeq(@, 1, Len(@) - 1),
                                         !.refused = IF CanAcquireNow(t, RwLock(k))
                                                     THEN @ ELSE @ \cup {k},
                                         !.tries = @ + 1]]
                         /\ out' = out
           ELSE /\ PruneReturn(t, c)
                /\ UNCHANGED <<payload, metadata, committed>>
        /\ UNCHANGED <<clock, configVars, nset>>
        /\ UNCHANGED lockVars

\* The bytes a read() of a stream at position pos returns.
ReadFrom(data, pos) == SubSeq(data, pos + 1, Len(data))

\* shutil.copyfileobj(payload, tmpfile, length): chunk after chunk until a
\* read returns nothing.
RECURSIVE CopyFileObj(_)
CopyFileObj(src) ==
    IF src = <<>>
    THEN <<>>
    ELSE LET n == IF Len(src) < ChunkLen THEN Len(src) ELSE ChunkLen
         IN  SubSeq(src, 1, n) \o CopyFileObj(SubSeq(src, n + 1, Len(src)))

\* set(key, value) is called: now_timestamp = time.time(), then self.prune().
SetCall(t, k, v) ==
    /\ call[t].at = "idle"
    /\ pc[t] = "idle"
    /\ nset < MaxSets
    /\ nset' = nset + 1
    /\ call' = [call EXCEPT ![t] =
          [Idle EXCEPT !.name = "set", !.at = "prune", !.key = k, !.value = v,
                       !.now = clock, !.sid = nset + 1,
                       !.prior = IF out.thread = t /\ out.name = "set"
                                    /\ out.key = k /\ out.value = v
                                 THEN [kind |-> out.kind, files |-> out.files]
                                 ELSE NoPrior]]
    /\ UNCHANGED <<payload, metadata, clock, configVars, out, committed>>
    /\ UNCHANGED lockVars

\* Mutant: set goes on without pruning.
PruneBegin_Skipped(t) ==
    /\ call[t].at = "prune"
    /\ call' = [call EXCEPT ![t].at = "set_build"]
    /\ UNCHANGED <<payload, metadata, clock, configVars, out, nset, committed>>
    /\ UNCHANGED lockVars

\* The prune() that set calls starts.
PruneBegin(t) ==
    /\ call[t].at = "prune"
    /\ PruneList(t, call[t])
    /\ UNCHANGED <<payload, metadata, clock, configVars, out, nset, committed>>
    /\ UNCHANGED lockVars

\* set, lines 141-165: the payload's temp file (or the caller's own file), the
\* metadata's temp file, then "with self._get_rw_lock(key)" is entered.
SetBuild(t) ==
    LET c == call[t]
    IN  /\ c.at = "set_build"
        /\ call' = [call EXCEPT ![t] = [c EXCEPT !.at = "set_metadata", !.built = clock]]
        /\ AcquireMutex(t, RwLock(c.key), TRUE)
        /\ UNCHANGED <<payload, metadata, clock, configVars, out, nset, committed>>

\* os.rename(metadata_file.name, self._file_path_metadata(key))
SetRenameMetadata(t) ==
    LET c == call[t]
        k == c.key
    IN  /\ c.at = "set_metadata"
        /\ pc[t] = "idle"
        /\ IF holds[t][RwLock(k)] = 0
           THEN /\ Done(t, [NoOut EXCEPT !.thread = t, !.name = "set", !.key = k,
                                         !.kind = last.result, !.sid = c.sid])
                /\ UNCHANGED metadata
           ELSE /\ metadata' = [metadata EXCEPT ![k] =
                      [exists |-> TRUE,
                       original_file_offset |-> c.value.payload.pos,
                       dogpile_metadata |-> c.value.metadata,
                       sid |-> c.sid, mtime |-> c.built]]
                /\ call' = [call EXCEPT ![t] = [c EXCEPT !.at = "set_payload"]]
                /\ out' = out
        /\ UNCHANGED <<payload, clock, configVars, nset, committed>>
        /\ UNCHANGED lockVars

\* Mutant: the bytes are appended to the payload file that is there, which
\* is not replaced.
SetRenamePayload_Appends(t) ==
    LET c == call[t]
        k == c.key
        stream == c.value.payload
    IN  /\ c.at = "set_payload"
        /\ payload' = [payload EXCEPT ![k] =
              [exists |-> TRUE,
               data |-> payload[k].data \o CopyFileObj(stream.data),
               sid |-> c.sid,
               mtime |-> c.built]]
        /\ call' = [call EXCEPT ![t] = [c EXCEPT !.at = "set_utime"]]
        /\ out' = out
        /\ UNCHANGED committed
        /\ UNCHANGED lockVars
        /\ UNCHANGED <<metadata, clock, configVars, nset>>

\* os.rename(payload_file_path, self._file_path_payload(key)): the temp copy,
\* or with file_movable whatever payload.name is; a name that is no path
\* makes rename raise, and the with block is left with the lock released.
SetRenamePayload(t) ==
    LET c == call[t]
        k == c.key
        stream == c.value.payload
    IN  /\ c.at = "set_payload"
        /\ IF file_movable /\ stream.name # "path"
           THEN /\ ReleaseCall(t, RwLock(k))
                /\ call' = [call EXCEPT ![t] = [c EXCEPT !.at = "unlock"]]
                /\ out' = [NoOut EXCEPT !.thread = t, !.name = "set", !.key = k,
                                        !.kind = "TypeError", !.sid = c.sid,
                                        !.value = c.value, !.now = c.now,
                                        !.prior = c.prior, !.files = Files]
                /\ committed' = [committed EXCEPT ![k].asked = c.value,
                                                  ![k].asked_now = c.now]
                /\ UNCHANGED payload
           ELSE /\ payload' = [payload EXCEPT ![k] =
                      [exists |-> TRUE,
                       data |-> IF file_movable THEN stream.data
                                ELSE CopyFileObj(stream.data),
                       sid |-> c.sid,
                       mtime |-> IF file_movable THEN c.now ELSE c.built]]
                /\ call' = [call EXCEPT ![t] = [c EXCEPT !.at = "set_utime"]]
                /\ out' = out
                /\ UNCHANGED committed
                /\ UNCHANGED lockVars
        /\ UNCHANGED <<metadata, clock, configVars, nset>>

\* os.utime of both files with (now_timestamp, now_timestamp).
SetUtime(t) ==
    LET c == call[t]
        k == c.key
    IN  /\ c.at = "set_utime"
        /\ metadata' = [metadata EXCEPT ![k].mtime = c.now]
        /\ payload' = [payload EXCEPT ![k].mtime = c.now]
        /\ call' = [call EXCEPT ![t] = [c EXCEPT !.at = "set_exit"]]
        /\ UNCHANGED <<clock, configVars, out, nset, committed>>
        /\ UNCHANGED lockVars

\* The with block of set is left: release() of the key's rw lock.
SetExit(t) ==
    LET c == call[t]
        k == c.key
    IN  /\ c.at = "set_exit"
        /\ ReleaseCall(t, RwLock(k))
        /\ committed' = [committed EXCEPT ![k] =
               [kind |-> "hit", sid |-> c.sid, value |-> c.value, mtime |-> c.now,
                asked |-> c.value, asked_now |-> c.now]]
        /\ call' = [call EXCEPT ![t] = [c EXCEPT !.at = "unlock"]]
        /\ out' = [NoOut EXCEPT !.thread = t, !.name = "set", !.key = k, !.kind = "ok",
                                !.sid = c.sid, !.value = c.value, !.now = c.now,
                                !.refused = c.refused, !.total = TotalSize,
                                !.left = ListedKeys, !.prior = c.prior,
                                !.files = Files]
        /\ UNCHANGED <<payload, metadata, clock, configVars, nset>>

\* get(key) is called: now_timestamp = time.time(), then the with block.
GetCall(t, k) ==
    /\ call[t].at = "idle"
    /\ pc[t] = "idle"
    /\ call' = [call EXCEPT ![t] = [Idle EXCEPT !.name = "get", !.at = "get_locked",
                                                !.key = k, !.now = clock]]
    /\ AcquireMutex(t, RwLock(k), TRUE)
    /\ UNCHANGED <<payload, metadata, clock, configVars, out, nset, committed>>

\* Mutant: get removes the files of an entry that it finds expired.
GetRead_RemovesExpired(t) ==
    LET c == call[t]
        k == c.key
        o == [NoOut EXCEPT !.thread = t, !.name = "get", !.key = k, !.now = c.now,
                           !.expect = committed[k], !.mtime = LastModified(k)]
    IN  /\ c.at = "get_locked"
        /\ pc[t] = "idle"
        /\ IF holds[t][RwLock(k)] = 0
           THEN /\ Done(t, [o EXCEPT !.kind = last.result])
                /\ UNCHANGED lockVars
           ELSE /\ ReleaseCall(t, RwLock(k))
                /\ call' = [call EXCEPT ![t] = [c EXCEPT !.at = "unlock"]]
                /\ out' = IF GetFinds(k, c.now)
                          THEN [o EXCEPT !.kind = "hit",
                                         !.data = payload[k].data,
                                         !.pos = metadata[k].original_file_offset,
                                         !.dogpile_metadata = metadata[k].dogpile_metadata,
                                         !.psid = payload[k].sid,
                                         !.msid = metadata[k].sid]
                          ELSE [o EXCEPT !.kind = "miss"]
        /\ IF holds[t][RwLock(k)] > 0 /\ payload[k].exists /\ metadata[k].exists
              /\ ~GetFinds(k, c.now)
           THEN DeleteKeyFiles({k})
           ELSE UNCHANGED <<payload, metadata, committed>>
        /\ UNCHANGED <<clock, configVars, nset>>

\* get under the lock: NO_VALUE, or the payload file opened and positioned at
\* metadata.original_file_offset, with the dogpile metadata if there is one.
GetRead(t) ==
    LET c == call[t]
        k == c.key
        o == [NoOut EXCEPT !.thread = t, !.name = "get", !.key = k, !.now = c.now,
                           !.expect = committed[k], !.mtime = LastModified(k)]
    IN  /\ c.at = "get_locked"
        /\ pc[t] = "idle"
        /\ IF holds[t][RwLock(k)] = 0
           THEN /\ Done(t, [o EXCEPT !.kind = last.result])
                /\ UNCHANGED lockVars
           ELSE /\ ReleaseCall(t, RwLock(k))
                /\ call' = [call EXCEPT ![t] = [c EXCEPT !.at = "unlock"]]
                /\ out' = IF GetFinds(k, c.now)
                          THEN [o EXCEPT !.kind = "hit",
                                         !.data = payload[k].data,
                                         !.pos = metadata[k].original_file_offset,
                                         !.dogpile_metadata = metadata[k].dogpile_metadata,
                                         !.psid = payload[k].sid,
                                         !.msid = metadata[k].sid]
                          ELSE [o EXCEPT !.kind = "miss"]
        /\ UNCHANGED <<payload, metadata, clock, configVars, nset, committed>>

\* delete(key) is called: the with block is entered.
DeleteCall(t, k) ==
    /\ call[t].at = "idle"
    /\ pc[t] = "idle"
    /\ call' = [call EXCEPT ![t] = [Idle EXCEPT !.name = "delete", !.at = "delete_locked",
                                                !.key = k, !.now = clock]]
    /\ AcquireMutex(t, RwLock(k), TRUE)
    /\ UNCHANGED <<payload, metadata, clock, configVars, out, nset, committed>>

\* delete under the lock: self._delete_key_files(key).
DeleteFiles(t) ==
    LET c == call[t]
        k == c.key
        o == [NoOut EXCEPT !.thread = t, !.name = "delete", !.key = k]
    IN  /\ c.at = "delete_locked"
        /\ pc[t] = "idle"
        /\ IF holds[t][RwLock(k)] = 0
           THEN /\ Done(t, [o EXCEPT !.kind = last.result])
                /\ UNCHANGED <<payload, metadata, committed>>
                /\ UNCHANGED lockVars
           ELSE /\ DeleteKeyFiles({k})
                /\ ReleaseCall(t, RwLock(k))
                /\ call' = [call EXCEPT ![t] = [c EXCEPT !.at = "unlock"]]
                /\ out' = [o EXCEPT !.kind = "ok"]
        /\ UNCHANGED <<clock, configVars, nset>>

\* The end of a with block: release() gives up the RLock and the call returns.
Unlock(t) ==
    /\ call[t].at = "unlock"
    /\ ReleaseMutex(t)
    /\ call' = [call EXCEPT ![t] = Idle]
    /\ UNCHANGED <<payload, metadata, clock, configVars, out, nset, committed>>

\* A thread inside acquire of a rw lock goes on: lockf is called.
EnterLockf(t) ==
    /\ call[t].at # "idle"
    /\ AcquireLockf(t)
    /\ UNCHANGED storeVars

\* A thread asleep in lockf for a rw lock is woken.
EnterWake(t) ==
    /\ call[t].at # "idle"
    /\ AcquireWake(t)
    /\ UNCHANGED storeVars

\* A thread asleep on the RLock of a rw lock is woken.
EnterMutexWake(t) ==
    /\ call[t].at # "idle"
    /\ AcquireMutexWake(t)
    /\ UNCHANGED storeVars

\* Time passes.
Tick ==
    /\ clock < MaxTime
    /\ clock' = clock + 1
    /\ UNCHANGED <<payload, metadata, configVars, call, out, nset, committed>>
    /\ UNCHANGED lockVars

\* Another process that shares the cache directory takes the byte range of
\* a key in rw.lock, when lockf grants it ...
OtherLock(p, id) ==
    /\ oslock[id] = None
    /\ \A t \in Threads : Pid(t) = p => call[t].at = "idle" /\ pc[t] = "idle"
    /\ oslock' = [oslock EXCEPT ![id] = p]
    /\ UNCHANGED <<thread_lock, counter, pc, arg, holds, saved, last>>
    /\ UNCHANGED storeVars

\* ... and unlocks it.
OtherUnlock(p, id) ==
    /\ oslock[id] = p
    /\ \A t \in Threads : Pid(t) = p => call[t].at = "idle" /\ pc[t] = "idle"
    /\ counter[p, id] = 0
    /\ oslock' = [oslock EXCEPT ![id] = None]
    /\ UNCHANGED <<thread_lock, counter, pc, arg, holds, saved, last>>
    /\ UNCHANGED storeVars

\* ---------------------------------------------------------------- multi
\* A call that ended with an exception.
Failed(o) == o.kind \notin {"ok", "hit", "miss"}

\* What a get returned, as get_multi puts it in its list: NO_VALUE, or the
\* stream, its position and the dogpile metadata.
GotOf(o) ==
    IF o.kind = "hit"
    THEN [kind |-> "hit", data |-> o.data, pos |-> o.pos,
          dogpile_metadata |-> o.dogpile_metadata]
    ELSE [NoGot EXCEPT !.kind = o.kind]

\* The elements of a sequence.
Elements(seq) == {seq[i] : i \in 1..Len(seq)}

\* The sequences without repetition of some of the keys.
KeyLists == UNION {Orderings(S) : S \in SUBSET Keys}

\* No *_multi call is in progress and the thread makes no call.
MultiIdle(t) ==
    /\ multi.run.name = None
    /\ call[t].at = "idle"
    /\ pc[t] = "idle"

\* delete_multi(keys) is called.
DeleteMultiCall(t, keys) ==
    /\ MultiIdle(t)
    /\ multi' = [NoMulti EXCEPT !.run =
          [NoRun EXCEPT !.thread = t, !.name = "delete_multi", !.keys = keys,
                        !.rest = keys, !.files0 = Files, !.now = clock]]
    /\ UNCHANGED storeVars
    /\ UNCHANGED lockVars

\* "for key in keys: self.delete(key)": the next delete is called.
DeleteMultiStep(t) ==
    LET r == multi.run
    IN  /\ r.thread = t
        /\ r.name = "delete_multi"
        /\ r.rest # <<>>
        /\ r.waiting => ~Failed(out)
        /\ DeleteCall(t, Head(r.rest))
        /\ multi' = [multi EXCEPT !.run.rest = Tail(@), !.run.waiting = TRUE]

\* set_multi(mapping) is called; keys is the order in which mapping.items()
\* gives the keys.
SetMultiCall(t, keys, mapping) ==
    /\ MultiIdle(t)
    /\ keys # <<>>
    /\ nset + Len(keys) <= MaxSets
    /\ multi' = [NoMulti EXCEPT !.run =
          [NoRun EXCEPT !.thread = t, !.name = "set_multi", !.keys = keys,
                        !.rest = keys, !.files0 = Files, !.now = clock,
                        !.mapping = [k \in Keys |-> IF k \in Elements(keys)
                                                    THEN mapping[k] ELSE NoValue]]]
    /\ UNCHANGED storeVars
    /\ UNCHANGED lockVars

\* Mutant: set_multi sets every key to the value of the first.
SetMultiStep_FirstValue(t) ==
    LET r == multi.run
    IN  /\ r.thread = t
        /\ r.name = "set_multi"
        /\ r.rest # <<>>
        /\ r.waiting => ~Failed(out)
        /\ SetCall(t, Head(r.rest), r.mapping[r.keys[1]])
        /\ multi' = [multi EXCEPT
              !.run.rest = Tail(@), !.run.waiting = TRUE,
              !.run.over = @ \/ (cache_size # NotSet /\ TotalSize > cache_size)]

\* "for key, value in mapping.items(): self.set(key, value)": the next set
\* is called. "over" records that some set of the loop began with more bytes
\* in values/ than cache_size allows.
SetMultiStep(t) ==
    LET r == multi.run
    IN  /\ r.thread = t
        /\ r.name = "set_multi"
        /\ r.rest # <<>>
        /\ r.waiting => ~Failed(out)
        /\ SetCall(t, Head(r.rest), r.mapping[Head(r.rest)])
        /\ multi' = [multi EXCEPT
              !.run.rest = Tail(@), !.run.waiting = TRUE,
              !.run.over = @ \/ (cache_size # NotSet /\ TotalSize > cache_size)]

\* get_multi(keys) is called; "prev" is the set_multi that returned just
\* before, if the call before was one.
GetMultiCall(t, keys) ==
    /\ MultiIdle(t)
    /\ multi' = [NoMulti EXCEPT !.run =
          [NoRun EXCEPT !.thread = t, !.name = "get_multi", !.keys = keys,
                        !.rest = keys, !.files0 = Files, !.now = clock,
                        !.prev = IF multi.done.name = "set_multi"
                                 THEN [kind |-> multi.done.kind,
                                       keys |-> multi.done.keys,
                                       mapping |-> multi.done.mapping,
                                       over |-> multi.done.over,
                                       now |-> multi.done.now]
                                 ELSE NoPrev]]
    /\ UNCHANGED storeVars
    /\ UNCHANGED lockVars

\* "[self.get(key) for key in keys]": what the last get returned joins the
\* list and the next get is called.
GetMultiStep(t) ==
    LET r == multi.run
    IN  /\ r.thread = t
        /\ r.name = "get_multi"
        /\ r.rest # <<>>
        /\ r.waiting => ~Failed(out)
        /\ GetCall(t, Head(r.rest))
        /\ multi' = [multi EXCEPT
              !.run.rest = Tail(@), !.run.waiting = TRUE,
              !.run.got = IF r.waiting THEN Append(@, GotOf(out)) ELSE @]

\* The loop of a *_multi call is over, or a call it made raised: the call
\* returns, get_multi with the list of what its gets returned.
MultiReturn(t) ==
    LET r == multi.run
        raised == r.waiting /\ Failed(out)
    IN  /\ r.thread = t
        /\ call[t].at = "idle"
        /\ pc[t] = "idle"
        /\ r.rest = <<>> \/ raised
        /\ multi' = [run |-> NoRun,
                      done |-> [r EXCEPT !.kind = IF raised THEN out.kind ELSE "ok",
                                         !.got = IF r.name = "get_multi" /\ r.waiting
                                                 THEN Append(@, GotOf(out)) ELSE @,
                                         !.waiting = FALSE,
                                         !.sid = out.sid,
                                         !.files = Files]]
        /\ UNCHANGED storeVars
        /\ UNCHANGED lockVars

\* A single get or delete is called outside a *_multi call; the
\* *_multi call that returned last is no longer the latest call.
Single(t) == multi.run.name = None /\ multi' = NoMulti

\* A thread calls get, delete and the *_multi methods one after the
\* other on a store that holds, for each key, both files, one of them or
\* none, while time passes; no other process uses the directory.
\* The options: neither TTL nor byte budget, a byte budget that the larger
\* of the two values exceeds, or a TTL of one unit of time (on a directory
\* that is empty at first).
MultiConfigs ==
    {[expiration_time |-> NotSet, cache_size |-> NotSet, file_movable |-> FALSE],
     [expiration_time |-> NotSet, cache_size |-> 2, file_movable |-> FALSE],
     [expiration_time |-> 1, cache_size |-> NotSet, file_movable |-> FALSE]}

MultiValues ==
    {[payload |-> [data |-> <<1>>, pos |-> 0, name |-> "path"], metadata |-> None],
     [payload |-> [data |-> <<2, 3>>, pos |-> 1, name |-> "path"], metadata |-> "meta"]}

\* What values/ holds of a key when the backend is made: which of its two
\* files are there. The first key has any of them, the second both or none.
MultiEntries ==
    {e \in [Keys -> [payload : BOOLEAN, metadata : BOOLEAN]] :
        e["k2"].payload = e["k2"].metadata}

\* The value whose files an earlier backend left.
MultiOld == [payload |-> [data |-> <<1>>, pos |-> 0, name |-> "path"], metadata |-> None]

MultiInit ==
    /\ LockInit
    /\ RegInit
    /\ clock = InitClock
    /\ call = [t \in Threads |-> Idle]
    /\ out = NoOut
    /\ nset = 0
    /\ multi = NoMulti
    /\ fh = NoFh
    /\ OldInit
    /\ \E e \in MultiEntries :
          /\ payload = [k \in Keys |->
                IF e[k].payload
                THEN [exists |-> TRUE, data |-> MultiOld.payload.data, sid |-> 0,
                      mtime |-> InitClock - 1]
                ELSE NoPayload]
          /\ metadata = [k \in Keys |->
                IF e[k].metadata
                THEN [exists |-> TRUE, original_file_offset |-> MultiOld.payload.pos,
                      dogpile_metadata |-> MultiOld.metadata, sid |-> 0,
                      mtime |-> InitClock - 1]
                ELSE NoMetadata]
          /\ committed = [k \in Keys |->
                IF e[k].payload /\ e[k].metadata
                THEN [kind |-> "hit", sid |-> 0, value |-> MultiOld,
                      mtime |-> InitClock - 1, asked |-> MultiOld,
                      asked_now |-> InitClock - 1]
                ELSE NoCommit]
    /\ \E cfg \in MultiConfigs :
          /\ expiration_time = cfg.expiration_time
          /\ cache_size = cfg.cache_size
          /\ file_movable = cfg.file_movable
    /\ expiration_time # NotSet => Files = NoFiles

\* Time passes between two calls of the loop of a *_multi call and between
\* a set_multi and the call after it; it is followed where a TTL makes it
\* count.
MultiTick ==
    /\ expiration_time # NotSet
    /\ call["t1"].at = "idle"
    /\ multi.run.name # None \/ multi.done.name = "set_multi"
    /\ Tick

MultiNext ==
    \/ \E keys \in KeyLists : DeleteMultiCall("t1", keys) /\ UNCHANGED <<regVars, worker, fh, oldVars>>
    \/ DeleteMultiStep("t1") /\ UNCHANGED <<regVars, worker, fh, oldVars>>
    \/ \E keys \in KeyLists, mapping \in [Keys -> MultiValues] :
          SetMultiCall("t1", keys, mapping) /\ UNCHANGED <<regVars, worker, fh, oldVars>>
    \/ SetMultiStep("t1") /\ UNCHANGED <<regVars, worker, fh, oldVars>>
    \/ \E keys \in KeyLists : GetMultiCall("t1", keys) /\ UNCHANGED <<regVars, worker, fh, oldVars>>
    \/ GetMultiStep("t1") /\ UNCHANGED <<regVars, worker, fh, oldVars>>
    \/ MultiReturn("t1") /\ UNCHANGED <<regVars, worker, fh, oldVars>>
    \/ \E k \in Keys : GetCall("t1", k) /\ Single("t1") /\ UNCHANGED <<regVars, worker, fh, oldVars>>
    \/ \E k \in Keys : DeleteCall("t1", k) /\ Single("t1") /\ UNCHANGED <<regVars, worker, fh, oldVars>>
    \/ PruneBegin("t1") /\ UNCHANGED <<regVars, worker, multi, fh, oldVars>>
    \/ PruneTtl("t1") /\ UNCHANGED <<regVars, worker, multi, fh, oldVars>>
    \/ PruneLru("t1") /\ UNCHANGED <<regVars, worker, multi, fh, oldVars>>
    \/ SetBuild("t1") /\ UNCHANGED <<regVars, worker, multi, fh, oldVars>>
    \/ SetRenameMetadata("t1") /\ UNCHANGED <<regVars, worker, multi, fh, oldVars>>
    \/ SetRenamePayload("t1") /\ UNCHANGED <<regVars, worker, multi, fh, oldVars>>
    \/ SetUtime("t1") /\ UNCHANGED <<regVars, worker, multi, fh, oldVars>>
    \/ SetExit("t1") /\ UNCHANGED <<regVars, worker, multi, fh, oldVars>>
    \/ GetRead("t1") /\ UNCHANGED <<regVars, worker, multi, fh, oldVars>>
    \/ DeleteFiles("t1") /\ UNCHANGED <<regVars, worker, multi, fh, oldVars>>
    \/ Unlock("t1") /\ UNCHANGED <<regVars, worker, multi, fh, oldVars>>
    \/ EnterLockf("t1") /\ UNCHANGED <<regVars, worker, multi, fh, oldVars>>
    \/ MultiTick /\ UNCHANGED <<regVars, worker, multi, fh, oldVars>>

SpecMulti == MultiInit /\ [][MultiNext]_vars

\* One thread uses the backend, on two keys; another process takes and drops
\* the rw lock of a key. The options are any of SeqConfigs:
\* a byte budget with copied payloads, or a TTL with moved payloads.
SeqConfigs ==
    {[expiration_time |-> NotSet, cache_size |-> 2, file_movable |-> FALSE],
     [expiration_time |-> 1, cache_size |-> NotSet, file_movable |-> TRUE]}

SeqValues ==
    {[payload |-> [data |-> <<1>>, pos |-> 0, name |-> "path"], metadata |-> None],
     [payload |-> [data |-> <<2, 3>>, pos |-> 1, name |-> "fd"], metadata |-> "meta"]}

SeqLockerIds == {RwLock("k2")}

SeqInit ==
    /\ LockInit
    /\ StoreInit
    /\ RegInit
    /\ \E cfg \in SeqConfigs :
          /\ expiration_time = cfg.expiration_time
          /\ cache_size = cfg.cache_size
          /\ file_movable = cfg.file_movable

SeqNext ==
    \/ \E k \in Keys, v \in SeqValues : SetCall("t1", k, v) /\ UNCHANGED <<regVars, worker, multi, fh, oldVars>>
    \/ \E k \in Keys : GetCall("t1", k) /\ UNCHANGED <<regVars, worker, multi, fh, oldVars>>
    \/ PruneCall("t1") /\ UNCHANGED <<regVars, worker, multi, fh, oldVars>>
    \/ PruneBegin("t1") /\ UNCHANGED <<regVars, worker, multi, fh, oldVars>>
    \/ PruneTtl("t1") /\ UNCHANGED <<regVars, worker, multi, fh, oldVars>>
    \/ PruneLru("t1") /\ UNCHANGED <<regVars, worker, multi, fh, oldVars>>
    \/ SetBuild("t1") /\ UNCHANGED <<regVars, worker, multi, fh, oldVars>>
    \/ SetRenameMetadata("t1") /\ UNCHANGED <<regVars, worker, multi, fh, oldVars>>
    \/ SetRenamePayload("t1") /\ UNCHANGED <<regVars, worker, multi, fh, oldVars>>
    \/ SetUtime("t1") /\ UNCHANGED <<regVars, worker, multi, fh, oldVars>>
    \/ SetExit("t1") /\ UNCHANGED <<regVars, worker, multi, fh, oldVars>>
    \/ GetRead("t1") /\ UNCHANGED <<regVars, worker, multi, fh, oldVars>>
    \/ Unlock("t1") /\ UNCHANGED <<regVars, worker, multi, fh, oldVars>>
    \/ EnterLockf("t1") /\ UNCHANGED <<regVars, worker, multi, fh, oldVars>>
    \/ EnterWake("t1") /\ UNCHANGED <<regVars, worker, multi, fh, oldVars>>
    \/ Tick /\ UNCHANGED <<regVars, worker, multi, fh, oldVars>>
    \/ \E id \in SeqLockerIds : OtherLock("p2", id) /\ UNCHANGED <<regVars, worker, multi, fh, oldVars>>
    \/ \E id \in SeqLockerIds : OtherUnlock("p2", id) /\ UNCHANGED <<regVars, worker, multi, fh, oldVars>>

SpecSeq == SeqInit /\ [][SeqNext]_vars

\* Threads of two processes use the backend on one key at the same time,
\* with a byte budget and file_movable.
StoreWorkers == {"t1", "u1"}

\* A second thread of the first process, which only reads.
StoreReaders == {"t2"}

StoreKeys == {"k1"}

StoreValues ==
    {[payload |-> [data |-> <<1>>, pos |-> 0, name |-> "path"], metadata |-> None],
     [payload |-> [data |-> <<2, 3>>, pos |-> 1, name |-> "path"], metadata |-> "meta"],
     [payload |-> [data |-> <<2, 3>>, pos |-> 0, name |-> "fd"], metadata |-> None]}

StoreSpecInit ==
    /\ LockInit
    /\ StoreInit
    /\ RegInit
    /\ expiration_time = NotSet
    /\ cache_size = 2
    /\ file_movable = TRUE

StoreNext ==
    \/ \E t \in StoreWorkers, k \in StoreKeys, v \in StoreValues : SetCall(t, k, v) /\ UNCHANGED <<regVars, worker, multi, fh, oldVars>>
    \/ \E t \in StoreWorkers \cup StoreReaders, k \in StoreKeys : GetCall(t, k) /\ UNCHANGED <<regVars, worker, multi, fh, oldVars>>
    \/ \E t \in StoreWorkers, k \in StoreKeys : DeleteCall(t, k) /\ UNCHANGED <<regVars, worker, multi, fh, oldVars>>
    \/ \E t \in StoreWorkers : PruneCall(t) /\ UNCHANGED <<regVars, worker, multi, fh, oldVars>>
    \/ \E t \in StoreWorkers : PruneBegin(t) /\ UNCHANGED <<regVars, worker, multi, fh, oldVars>>
    \/ \E t \in StoreWorkers : PruneLru(t) /\ UNCHANGED <<regVars, worker, multi, fh, oldVars>>
    \/ \E t \in StoreWorkers : SetBuild(t) /\ UNCHANGED <<regVars, worker, multi, fh, oldVars>>
    \/ \E t \in StoreWorkers : SetRenameMetadata(t) /\ UNCHANGED <<regVars, worker, multi, fh, oldVars>>
    \/ \E t \in StoreWorkers : SetRenamePayload(t) /\ UNCHANGED <<regVars, worker, multi, fh, oldVars>>
    \/ \E t \in StoreWorkers : SetUtime(t) /\ UNCHANGED <<regVars, worker, multi, fh, oldVars>>
    \/ \E t \in StoreWorkers : SetExit(t) /\ UNCHANGED <<regVars, worker, multi, fh, oldVars>>
    \/ \E t \in StoreWorkers \cup StoreReaders : GetRead(t) /\ UNCHANGED <<regVars, worker, multi, fh, oldVars>>
    \/ \E t \in StoreWorkers : DeleteFiles(t) /\ UNCHANGED <<regVars, worker, multi, fh, oldVars>>
    \/ \E t \in StoreWorkers \cup StoreReaders : Unlock(t) /\ UNCHANGED <<regVars, worker, multi, fh, oldVars>>
    \/ \E t \in StoreWorkers \cup StoreReaders : EnterMutexWake(t) /\ UNCHANGED <<regVars, worker, multi, fh, oldVars>>
    \/ \E t \in StoreWorkers \cup StoreReaders : EnterLockf(t) /\ UNCHANGED <<regVars, worker, multi, fh, oldVars>>
    \/ \E t \in StoreWorkers \cup StoreReaders : EnterWake(t) /\ UNCHANGED <<regVars, worker, multi, fh, oldVars>>

SpecStore == StoreSpecInit /\ [][StoreNext]_vars

\* The locks alone: the threads take and release the dogpile locks, and the
\* store is left as it is.
LockNext ==
    \/ \E t \in Threads, id \in DogpileIds, b \in BOOLEAN :
          AcquireCall(t, id, b) /\ UNCHANGED storeVars /\ UNCHANGED <<regVars, worker, multi, fh, oldVars>>
    \/ \E t \in Threads : AcquireMutexWake(t) /\ UNCHANGED storeVars /\ UNCHANGED <<regVars, worker, multi, fh, oldVars>>
    \/ \E t \in Threads : AcquireLockf(t) /\ UNCHANGED storeVars /\ UNCHANGED <<regVars, worker, multi, fh, oldVars>>
    \/ \E t \in Threads : AcquireWake(t) /\ UNCHANGED storeVars /\ UNCHANGED <<regVars, worker, multi, fh, oldVars>>
    \/ \E t \in Threads, id \in DogpileIds : ReleaseCall(t, id) /\ UNCHANGED storeVars /\ UNCHANGED <<regVars, worker, multi, fh, oldVars>>
    \/ \E t \in Threads : ReleaseMutex(t) /\ UNCHANGED storeVars /\ UNCHANGED <<regVars, worker, multi, fh, oldVars>>

LockSpecInit ==
    /\ LockInit
    /\ StoreInit
    /\ RegInit
    /\ expiration_time = NotSet
    /\ cache_size = NotSet
    /\ file_movable = FALSE

SpecLock == LockSpecInit /\ [][LockNext]_vars

\* ---------------------------------------------------------------- release
\* release() line by line. Its first lines: self._counter -= 1, and with the
\* counter still positive the RLock is released and the call returns.
ReleaseBegin(t, id) ==
    LET p == Pid(t)
    IN  /\ pc[t] = "idle"
        /\ holds[t][id] > 0
        /\ counter' = [counter EXCEPT ![p, id] = @ - 1]
        /\ holds' = [holds EXCEPT ![t][id] = @ - 1]
        /\ IF counter[p, id] - 1 > 0
           THEN /\ thread_lock' = [thread_lock EXCEPT ![p, id] = RLockRelease(@)]
                /\ Return(t, "release", id, FALSE, None)
           ELSE /\ Goto(t, "rel_lockf", "release", id, FALSE)
                /\ UNCHANGED <<thread_lock, saved>>
        /\ UNCHANGED oslock

\* Mutant: the RLock is released before lockf(LOCK_UN) is called.
ReleaseLockf_MutexFirst(t) ==
    LET id == arg[t].id
    IN  /\ pc[t] = "rel_lockf"
        /\ thread_lock' = [thread_lock EXCEPT ![Pid(t), id] = RLockRelease(@)]
        /\ Goto(t, "rel_mutex", "release", id, FALSE)
        /\ UNCHANGED <<counter, oslock, holds, saved>>

\* try: lockf(self._file, LOCK_UN, 1, self._offset): the byte range is
\* unlocked, or the call raises (EBADF, EINTR, ENOLCK) and the range stays
\* as it is.
ReleaseLockf(t) ==
    LET id == arg[t].id
    IN  /\ pc[t] = "rel_lockf"
        /\ \/ /\ oslock' = [oslock EXCEPT ![id] = IF @ = Pid(t) THEN None ELSE @]
              /\ Goto(t, "rel_mutex", "release", id, FALSE)
           \/ /\ oslock' = oslock
              /\ Goto(t, "rel_raise", "release", id, FALSE)
        /\ UNCHANGED <<thread_lock, counter, holds, saved>>

\* finally: self._thread_lock.release(), after which the exception of
\* lockf leaves release().
ReleaseRaise(t) ==
    /\ pc[t] = "rel_raise"
    /\ thread_lock' = [thread_lock EXCEPT ![Pid(t), arg[t].id] = RLockRelease(@)]
    /\ Return(t, "release", arg[t].id, FALSE, "IOError")
    /\ UNCHANGED <<counter, oslock, holds>>

\* The threads of two processes take and release the lock of one identifier,
\* with release followed line by line.
ReleaseIds == {RwLock("k1")}

ReleaseNext ==
    \/ \E t \in Threads, id \in ReleaseIds, b \in BOOLEAN :
          AcquireCall(t, id, b) /\ UNCHANGED storeVars /\ UNCHANGED <<regVars, worker, multi, fh, oldVars>>
    \/ \E t \in Threads : AcquireMutexWake(t) /\ UNCHANGED storeVars /\ UNCHANGED <<regVars, worker, multi, fh, oldVars>>
    \/ \E t \in Threads : AcquireLockf(t) /\ UNCHANGED storeVars /\ UNCHANGED <<regVars, worker, multi, fh, oldVars>>
    \/ \E t \in Threads : AcquireWake(t) /\ UNCHANGED storeVars /\ UNCHANGED <<regVars, worker, multi, fh, oldVars>>
    \/ \E t \in Threads, id \in ReleaseIds : ReleaseBegin(t, id) /\ UNCHANGED storeVars /\ UNCHANGED <<regVars, worker, multi, fh, oldVars>>
    \/ \E t \in Threads : ReleaseLockf(t) /\ UNCHANGED storeVars /\ UNCHANGED <<regVars, worker, multi, fh, oldVars>>
    \/ \E t \in Threads : ReleaseMutex(t) /\ UNCHANGED storeVars /\ UNCHANGED <<regVars, worker, multi, fh, oldVars>>
    \/ \E t \in Threads : ReleaseRaise(t) /\ UNCHANGED storeVars /\ UNCHANGED <<regVars, worker, multi, fh, oldVars>>

SpecRelease == LockSpecInit /\ [][ReleaseNext]_vars

\* ------------------------------------------------- release by any caller
\* self._thread_lock.release() at the end of release(): the owner gives the
\* RLock up and release() returns None; any other thread gets RuntimeError
\* ("cannot release un-acquired lock") and the RLock stays as it is.
RLockReleaseBy(t, id, result) ==
    IF thread_lock[Pid(t), id].owner = t
    THEN /\ thread_lock' = [thread_lock EXCEPT ![Pid(t), id] = RLockRelease(@)]
         /\ Return(t, "release", id, FALSE, result)
    ELSE /\ thread_lock' = thread_lock
         /\ Return(t, "release", id, FALSE, "RuntimeError")

\* release() as the code has it, called by any thread of the process,
\* holder or not: the counter is decremented first; "assert self._counter
\* >= 0" raises when asserts are compiled in (they are not under python -O)
\* and leaves the decrement in place; with the counter still positive only
\* the RLock is released; else lockf(LOCK_UN) unlocks the byte range and
\* the RLock is released in the finally clause.
ReleaseByAnyone(t, id, asserts) ==
    LET p == Pid(t)
        c == counter[p, id] - 1
    IN  /\ pc[t] = "idle"
        /\ counter[p, id] > -MaxDepth
        /\ counter' = [counter EXCEPT ![p, id] = c]
        /\ holds' = [holds EXCEPT ![t][id] = IF @ > 0 THEN @ - 1 ELSE @]
        /\ IF c < 0 /\ asserts
           THEN /\ Return(t, "release", id, FALSE, "AssertionError")
                /\ UNCHANGED <<thread_lock, oslock>>
           ELSE IF c > 0
           THEN /\ RLockReleaseBy(t, id, None)
                /\ UNCHANGED oslock
           ELSE /\ oslock' = [oslock EXCEPT ![id] = IF @ = p THEN None ELSE @]
                /\ RLockReleaseBy(t, id, None)

\* The threads of two processes acquire the lock of one identifier and call
\* release on it whether they hold it or not.
MisuseIds == {RwLock("k1")}

\* acquire is called; the RLock has not been taken more than MaxDepth times.
MisuseAcquire(t, id, blocking) ==
    /\ thread_lock[Pid(t), id].count < MaxDepth
    /\ AcquireCall(t, id, blocking)

MisuseNext ==
    \/ \E t \in Threads, id \in MisuseIds, b \in BOOLEAN :
          MisuseAcquire(t, id, b) /\ UNCHANGED storeVars /\ UNCHANGED <<regVars, worker, multi, fh, oldVars>>
    \/ \E t \in Threads : AcquireMutexWake(t) /\ UNCHANGED storeVars /\ UNCHANGED <<regVars, worker, multi, fh, oldVars>>
    \/ \E t \in Threads : AcquireLockf(t) /\ UNCHANGED storeVars /\ UNCHANGED <<regVars, worker, multi, fh, oldVars>>
    \/ \E t \in Threads : AcquireWake(t) /\ UNCHANGED storeVars /\ UNCHANGED <<regVars, worker, multi, fh, oldVars>>
    \/ \E t \in Threads, id \in MisuseIds, asserts \in BOOLEAN :
          ReleaseByAnyone(t, id, asserts) /\ UNCHANGED storeVars /\ UNCHANGED <<regVars, worker, multi, fh, oldVars>>

SpecMisuse == LockSpecInit /\ [][MisuseNext]_vars

\* ------------------------------------------------------- the older lock
(***************************************************************************)
(* dogpile_cache_fs_backend.locking.RangedFileReentrantLock: the same RLock, *)
(* counter and byte range as the newer class, in thread_lock, counter and   *)
(* oslock, and the lock object's _file in lock_file.                        *)
(***************************************************************************)
OlderIds == {RwLock("k1")}

\* A step of the older lock changes nothing of the store, the registry or
\* the oldest backend.
OlderOnly ==
    /\ UNCHANGED storeVars
    /\ UNCHANGED <<regVars, worker, multi, fh, fds, type_file>>

\* acquire(blocking) is called by an idle thread: the flags and
\* self.lock.acquire(blocking), which are the lines of the newer class.
OlderAcquireCall(t, id, blocking) ==
    /\ pc[t] = "idle"
    /\ holds[t][id] < MaxDepth
    /\ thread_lock[Pid(t), id].count < MaxDepth
    /\ AcquireMutex(t, id, blocking)
    /\ lock_file' = lock_file

\* A thread asleep in self.lock.acquire(True) gets the RLock.
OlderAcquireMutexWake(t) ==
    /\ AcquireMutexWake(t)
    /\ lock_file' = lock_file

\* lockf raised: the except branch returns False (EACCES, EAGAIN) or
\* re-raises, and an error that is no IOError passes it by; the RLock is
\* released on none of these paths.
OlderAcquireLockfFail(t, result) ==
    /\ Return(t, "acquire", arg[t].id, arg[t].blocking, result)
    /\ UNCHANGED <<thread_lock, counter, oslock, holds>>

\* lockf(self._file, lockflag, 1, self.key_offset) with counter = 0; a lock
\* object that was released once has _file None, which lockf refuses with
\* TypeError.
OlderAcquireLockf(t) ==
    LET id == arg[t].id
        p == Pid(t)
    IN  /\ pc[t] = "acq_lockf"
        /\ IF ~lock_file[p, id]
           THEN OlderAcquireLockfFail(t, "TypeError")
           ELSE IF oslock[id] \in {None, p}
           THEN AcquireLockfDone(t)
           ELSE IF ~arg[t].blocking
           THEN OlderAcquireLockfFail(t, "False")
           ELSE IF WouldDeadlock(p, id)
           THEN OlderAcquireLockfFail(t, "EDEADLK")
           ELSE /\ Goto(t, "acq_wait", "acquire", id, TRUE)
                /\ UNCHANGED <<thread_lock, counter, oslock, holds, saved>>
        /\ lock_file' = lock_file

\* A blocking lockf returns once the other process has dropped the range.
OlderAcquireWake(t) ==
    /\ AcquireWake(t)
    /\ lock_file' = lock_file

\* release() by a holder, up to lockf(LOCK_UN): counter -= 1, and with the
\* counter still positive the RLock is released and release returns.
OlderReleaseCall(t, id) ==
    /\ ReleaseCall(t, id)
    /\ lock_file' = lock_file

\* release(), the finally branch: self._file = None, self.lock.release().
OlderReleaseFinally(t) ==
    /\ ReleaseMutex(t)
    /\ lock_file' = [lock_file EXCEPT ![Pid(t), arg[t].id] = FALSE]

OlderNext ==
    \/ \E t \in Threads, id \in OlderIds, blocking \in BOOLEAN :
          OlderAcquireCall(t, id, blocking) /\ OlderOnly
    \/ \E t \in Threads : OlderAcquireMutexWake(t) /\ OlderOnly
    \/ \E t \in Threads : OlderAcquireLockf(t) /\ OlderOnly
    \/ \E t \in Threads : OlderAcquireWake(t) /\ OlderOnly
    \/ \E t \in Threads, id \in OlderIds : OlderReleaseCall(t, id) /\ OlderOnly
    \/ \E t \in Threads : OlderReleaseFinally(t) /\ OlderOnly

SpecOlder == LockSpecInit /\ [][OlderNext]_vars

\* ------------------------------------------------------ the oldest lock
(***************************************************************************)
(* dogpile_cache_file_system_backend.RangedFileLock: _get_rw_lock makes a   *)
(* new lock object for every use, each with its own descriptor of the lock  *)
(* file; no RLock and no counter.  fds[t][id] is the descriptor of the      *)
(* object thread t uses for id, oslock the owner of the byte range.         *)
(***************************************************************************)
OldestIds == RwIds

\* os.close(fileno) on a descriptor of the lock file: the kernel drops every
\* range that the process has locked on that file.
OsClose(p, id) ==
    [j \in LockIds |-> IF j[1] = id[1] /\ oslock[j] = p THEN None ELSE oslock[j]]

\* A step of the oldest lock changes nothing else.
OldestOnly ==
    /\ UNCHANGED <<thread_lock, counter, holds>>
    /\ UNCHANGED storeVars
    /\ UNCHANGED <<regVars, worker, multi, fh, lock_file, type_file>>

\* RangedFileLock(path, key).acquire_write_lock(wait) on a new lock object:
\* os.open, lockf; on IOError the descriptor is closed, and the call returns
\* False when it was not to wait and raises otherwise.
OldestAcquire(t, id, wait) ==
    LET p == Pid(t)
    IN  /\ pc[t] = "idle"
        /\ fds[t][id] = None
        /\ IF oslock[id] \in {None, p}
           THEN /\ oslock' = [oslock EXCEPT ![id] = p]
                /\ fds' = [fds EXCEPT ![t][id] = "open"]
                /\ Return(t, "acquire", id, wait, "True")
           ELSE IF ~wait
           THEN /\ oslock' = OsClose(p, id)
                /\ fds' = fds
                /\ Return(t, "acquire", id, wait, "False")
           ELSE IF WouldDeadlock(p, id)
           THEN /\ oslock' = OsClose(p, id)
                /\ fds' = fds
                /\ Return(t, "acquire", id, wait, "EDEADLK")
           ELSE /\ Goto(t, "acq_wait", "acquire", id, TRUE)
                /\ UNCHANGED <<oslock, fds, saved>>

\* A waiting lockf returns once the other process has dropped the range.
OldestAcquireWake(t) ==
    /\ pc[t] = "acq_wait"
    /\ oslock[arg[t].id] = None
    /\ oslock' = [oslock EXCEPT ![arg[t].id] = Pid(t)]
    /\ fds' = [fds EXCEPT ![t][arg[t].id] = "open"]
    /\ Return(t, "acquire", arg[t].id, TRUE, "True")

\* release_write_lock(): nothing without a descriptor; else lockf(LOCK_UN)
\* on the range and os.close of the descriptor.  The lock object is not
\* used again.
OldestRelease(t, id) ==
    /\ pc[t] = "idle"
    /\ IF fds[t][id] = None
       THEN UNCHANGED <<oslock, fds>>
       ELSE /\ oslock' = OsClose(Pid(t), id)
            /\ fds' = [fds EXCEPT ![t][id] = None]
    /\ Return(t, "release", id, FALSE, None)

OldestNext ==
    \/ \E t \in Threads, id \in OldestIds, wait \in BOOLEAN :
          OldestAcquire(t, id, wait) /\ OldestOnly
    \/ \E t \in Threads : OldestAcquireWake(t) /\ OldestOnly
    \/ \E t \in Threads, id \in OldestIds : OldestRelease(t, id) /\ OldestOnly

SpecOldest == LockSpecInit /\ [][OldestNext]_vars

\* ----------------------------------------------------------- file handles
(***************************************************************************)
(* registry.py in one process: the dict _registry of open lock files, the  *)
(* ProcessLocalRegistry objects file_lock and locks with the NameRegistry  *)
(* each of them makes, and the lock objects, which keep the handle they    *)
(* were given. Two threads look up the rw locks of two keys.               *)
(***************************************************************************)
FhThreads == {"t1", "t2"}

FhPid == "p1"

\* The identifier that the thread looks up: (rw_lock_path, offset of its key).
FhId(t) == IF t = "t1" THEN RwLock("k1") ELSE RwLock("k2")

\* Something refers to the file object: _registry, a lock object's _file,
\* or the local variable of a thread inside _open_file or _lock_creator.
Referenced(h, f) ==
    \/ f.registry = h
    \/ \E u \in FhThreads : f.th[u].obj = h \/ f.th[u].h = h

\* The file objects that nothing refers to any more.
Unreferenced(f) == {h \in f.open : ~Referenced(h, f)}

\* The interpreter closes a file object that nothing refers to.
Collect(f) ==
    [f EXCEPT !.open = @ \ Unreferenced(f),
              !.closed = @ + Cardinality(Unreferenced(f))]

\* close() of any descriptor of a file drops every byte range that the
\* process has locked on that file (POSIX record locks).
KernelAfter(f) ==
    IF Unreferenced(f) = {}
    THEN oslock
    ELSE [id \in LockIds |->
            IF id \in RwIds /\ oslock[id] = FhPid THEN None ELSE oslock[id]]

\* A step inside registry.py changes no lock and nothing of the store.
FhOnly ==
    /\ UNCHANGED <<thread_lock, counter, pc, arg, holds, saved, last>>
    /\ UNCHANGED storeVars
    /\ UNCHANGED <<regVars, worker, multi, oldVars>>

\* RawFSBackend._get_rw_lock: registry.locks.get(identifier) is called by a
\* thread that has no lock object.
PlrCall(t) ==
    /\ fh.th[t].at = "idle"
    /\ fh.th[t].obj = 0
    /\ fh' = [fh EXCEPT !.th[t] = [NoFhThread EXCEPT !.at = "check", !.reg = "locks"]]
    /\ oslock' = oslock
    /\ FhOnly

\* ProcessLocalRegistry.get: "if self._pid != current_pid".
PlrCheck(t) ==
    LET me == fh.th[t]
    IN  /\ me.at = "check"
        /\ fh' = [fh EXCEPT !.th[t].at = IF fh.pid[me.reg] # FhPid
                                         THEN "store_pid" ELSE "read"]
        /\ oslock' = oslock
        /\ FhOnly

\* "self._pid, self.registry = current_pid, NameRegistry(...)": the first
\* of the two stores.
PlrStorePid(t) ==
    LET me == fh.th[t]
    IN  /\ me.at = "store_pid"
        /\ fh' = [fh EXCEPT !.pid[me.reg] = FhPid, !.th[t].at = "store_registry"]
        /\ oslock' = oslock
        /\ FhOnly

\* The second store: a new NameRegistry takes the place of the old one.
PlrStoreRegistry(t) ==
    LET me == fh.th[t]
    IN  /\ me.at = "store_registry"
        /\ fh.insts + 1 \in Insts
        /\ fh' = [fh EXCEPT !.insts = @ + 1, !.reg[me.reg] = fh.insts + 1,
                             !.th[t].at = "read"]
        /\ oslock' = oslock
        /\ FhOnly

\* "return self.registry.get(identifier)": self.registry is read; None has
\* no get, and the AttributeError leaves the calls the thread is in.
PlrRead(t) ==
    LET me == fh.th[t]
    IN  /\ me.at = "read"
        /\ IF fh.reg[me.reg] = 0
           THEN fh' = [fh EXCEPT
                   !.mutex = [i \in Insts |-> IF @[i] = t THEN None ELSE @[i]],
                   !.th[t] = [NoFhThread EXCEPT !.error = "AttributeError"]]
           ELSE fh' = [fh EXCEPT !.th[t].inst[me.reg] = fh.reg[me.reg],
                                 !.th[t].at = "sync"]
        /\ oslock' = oslock
        /\ FhOnly

\* NameRegistry.get: a value that is there is returned; else the mutex of
\* this NameRegistry is taken and the creator called: _lock_creator, whose
\* first line is file_lock.get(path), or _open_file.
NrSyncGet(t) ==
    LET me == fh.th[t]
        i == me.inst[me.reg]
        v == fh.values[i]
    IN  /\ me.at = "sync"
        /\ IF me.reg = "file_lock" /\ v # 0 /\ v \in fh.open
           THEN fh' = [fh EXCEPT !.th[t].h = v, !.th[t].at = "make"]
           ELSE /\ fh.mutex[i] = None
                /\ fh' = [fh EXCEPT
                      !.mutex[i] = t,
                      !.th[t].reg = "file_lock",
                      !.th[t].at = IF me.reg = "locks" THEN "check" ELSE "open_try"]
        /\ oslock' = oslock
        /\ FhOnly

\* _open_file: "try: return _registry[path]"; KeyError leads to open().
OpenTry(t) ==
    LET me == fh.th[t]
    IN  /\ me.at = "open_try"
        /\ fh' = IF fh.registry # 0
                 THEN [fh EXCEPT !.th[t].h = fh.registry, !.th[t].at = "file_done"]
                 ELSE [fh EXCEPT !.th[t].at = "open"]
        /\ oslock' = oslock
        /\ FhOnly

\* "f = _registry[path] = open(path, 'w+b', buffering=0)": the file is
\* opened and the dict entry set, whatever it held.
OpenAssign(t) ==
    LET me == fh.th[t]
        new == fh.handles + 1
        f == [fh EXCEPT !.handles = new, !.open = @ \cup {new}, !.registry = new,
                        !.th[t].h = new, !.th[t].at = "file_done"]
    IN  /\ me.at = "open"
        /\ new \in Handles
        /\ fh' = Collect(f)
        /\ oslock' = KernelAfter(f)
        /\ FhOnly

\* NameRegistry._sync_get of file_lock stores the value (by weak reference)
\* and releases its mutex: file_lock.get(path) has returned.
FileDone(t) ==
    LET me == fh.th[t]
        i == me.inst["file_lock"]
    IN  /\ me.at = "file_done"
        /\ fh' = [fh EXCEPT !.values[i] = me.h, !.mutex[i] = None,
                             !.th[t].at = "make"]
        /\ oslock' = oslock
        /\ FhOnly

\* _lock_creator returns RangedFileReentrantLock(file_o, offset); the
\* NameRegistry of locks releases its mutex and the lookup returns.
MakeLock(t) ==
    LET me == fh.th[t]
    IN  /\ me.at = "make"
        /\ fh' = [fh EXCEPT !.mutex[me.inst["locks"]] = None,
                             !.th[t].obj = me.h, !.th[t].h = 0,
                             !.th[t].reg = None, !.th[t].at = "idle"]
        /\ oslock' = oslock
        /\ FhOnly

\* The thread acquires the lock object it got: lockf on the object's file.
FhAcquire(t) ==
    LET id == FhId(t)
    IN  /\ fh.th[t].at = "idle"
        /\ fh.th[t].obj # 0
        /\ holds[t][id] = 0
        /\ oslock[id] \in {None, FhPid}
        /\ thread_lock' = [thread_lock EXCEPT ![FhPid, id] = RLockTake(@, t)]
        /\ counter' = [counter EXCEPT ![FhPid, id] = @ + 1]
        /\ holds' = [holds EXCEPT ![t][id] = @ + 1]
        /\ oslock' = [oslock EXCEPT ![id] = FhPid]
        /\ UNCHANGED <<pc, arg, saved, last, fh>>
        /\ UNCHANGED storeVars
        /\ UNCHANGED <<regVars, worker, multi, oldVars>>

\* The thread releases it: the final release, which unlocks the range.
FhRelease(t) ==
    LET id == FhId(t)
    IN  /\ fh.th[t].at = "idle"
        /\ fh.th[t].obj # 0
        /\ holds[t][id] > 0
        /\ thread_lock' = [thread_lock EXCEPT ![FhPid, id] = RLockRelease(@)]
        /\ counter' = [counter EXCEPT ![FhPid, id] = @ - 1]
        /\ holds' = [holds EXCEPT ![t][id] = @ - 1]
        /\ oslock' = [oslock EXCEPT ![id] = IF @ = FhPid THEN None ELSE @]
        /\ UNCHANGED <<pc, arg, saved, last, fh>>
        /\ UNCHANGED storeVars
        /\ UNCHANGED <<regVars, worker, multi, oldVars>>

\* The thread drops its reference to a lock object that it has released:
\* the object is collected (the NameRegistry refers to it weakly), and with
\* it the reference to its file.
FhDrop(t) ==
    LET f == [fh EXCEPT !.th[t].obj = 0]
    IN  /\ fh.th[t].at = "idle"
        /\ fh.th[t].obj # 0
        /\ holds[t][FhId(t)] = 0
        /\ fh' = Collect(f)
        /\ oslock' = KernelAfter(f)
        /\ FhOnly

FhNext ==
    \/ \E t \in FhThreads : PlrCall(t)
    \/ \E t \in FhThreads : PlrCheck(t)
    \/ \E t \in FhThreads : PlrStorePid(t)
    \/ \E t \in FhThreads : PlrStoreRegistry(t)
    \/ \E t \in FhThreads : PlrRead(t)
    \/ \E t \in FhThreads : NrSyncGet(t)
    \/ \E t \in FhThreads : OpenTry(t)
    \/ \E t \in FhThreads : OpenAssign(t)
    \/ \E t \in FhThreads : FileDone(t)
    \/ \E t \in FhThreads : MakeLock(t)
    \/ \E t \in FhThreads : FhAcquire(t)
    \/ \E t \in FhThreads : FhRelease(t)
    \/ \E t \in FhThreads : FhDrop(t)

SpecHandles == LockSpecInit /\ [][FhNext]_vars

\* test_avoid_deadlock: two processes, one thread each, take the locks of
\* their queues with blocking acquires, release them at 'done' and report
\* 'success'; a process whose acquire raises reports the error and ends.
Workers == {"t1", "u1"}

\* The identifiers that the queues name.
WorkerIds == DogpileIds

\* The queues: one or two different identifiers, in either order.
WorkerQueues ==
    {<<a>> : a \in WorkerIds} \cup
    {q \in WorkerIds \X WorkerIds : q[1] # q[2]}

\* item = queue.get(); lock = registry.locks.get(item); lock.acquire();
\* locks.append(lock)
WorkerAcquire(t) ==
    LET w == worker[t]
    IN  /\ w.result = None
        /\ ~w.raised
        /\ w.queue # <<>>
        /\ AcquireCall(t, Head(w.queue), TRUE)
        /\ worker' = [worker EXCEPT ![t].queue = Tail(@),
                                    ![t].locks = Append(@, Head(w.queue))]

\* The lockf of the worker's acquire; "except Exception as e" when it raises.
WorkerLockf(t) ==
    /\ AcquireLockf(t)
    /\ worker' = [worker EXCEPT ![t].raised = (last'.result = "EDEADLK")]

\* The worker's blocking lockf returns.
WorkerWake(t) ==
    /\ AcquireWake(t)
    /\ UNCHANGED worker

\* result_q.put(e); return: the process ends, and the kernel drops the byte
\* range locks it holds.
WorkerFail(t) ==
    LET p == Pid(t)
    IN  /\ worker[t].raised
        /\ worker[t].result = None
        /\ pc[t] = "idle"
        /\ worker' = [worker EXCEPT ![t].result = "EDEADLK", ![t].locks = <<>>]
        /\ oslock' = [id \in LockIds |-> IF oslock[id] = p THEN None ELSE oslock[id]]
        /\ counter' = [q \in Procs, id \in LockIds |-> IF q = p THEN 0 ELSE counter[q, id]]
        /\ thread_lock' = [q \in Procs, id \in LockIds |->
                             IF q = p THEN RLockFree ELSE thread_lock[q, id]]
        /\ holds' = [holds EXCEPT ![t] = [id \in LockIds |-> 0]]
        /\ UNCHANGED <<pc, arg, saved, last>>

\* 'done': "for lock in locks: lock.release()"
WorkerRelease(t) ==
    LET w == worker[t]
    IN  /\ w.result = None
        /\ ~w.raised
        /\ w.queue = <<>>
        /\ w.locks # <<>>
        /\ ReleaseCall(t, Head(w.locks))
        /\ worker' = [worker EXCEPT ![t].locks = Tail(@)]

\* The finally clause of the worker's release.
WorkerReleaseMutex(t) ==
    /\ ReleaseMutex(t)
    /\ UNCHANGED worker

\* result_q.put('success')
WorkerSuccess(t) ==
    LET w == worker[t]
    IN  /\ w.result = None
        /\ ~w.raised
        /\ w.queue = <<>>
        /\ w.locks = <<>>
        /\ pc[t] = "idle"
        /\ worker' = [worker EXCEPT ![t].result = "success"]
        /\ UNCHANGED lockVars

\* Every step that worker t can take.
WorkerStep(t) ==
    /\ \/ WorkerAcquire(t)
       \/ WorkerLockf(t)
       \/ WorkerWake(t)
       \/ WorkerFail(t)
       \/ WorkerRelease(t)
       \/ WorkerReleaseMutex(t)
       \/ WorkerSuccess(t)
    /\ UNCHANGED <<storeVars, regVars, multi, fh, oldVars>>

DeadlockInit ==
    /\ LockInit
    /\ StoreInit
    /\ expiration_time = NotSet
    /\ cache_size = NotSet
    /\ file_movable = FALSE
    /\ heap = [p \in Procs |-> [o \in Objs |-> NoObj]]
    /\ registry = [p \in Procs |-> NoRegistry]
    /\ ref = [t \in Threads |-> NoRef]
    /\ look = [t \in Threads |-> NoLook]
    /\ rout = NoRout
    /\ forked = FALSE
    /\ distributed_lock = "True"
    /\ worker \in {f \in [Threads -> {[NoWorker EXCEPT !.queue = q] : q \in WorkerQueues}
                                      \cup {NoWorker}] :
                      \A t \in Threads : f[t] = NoWorker <=> t \notin Workers}

DeadlockNext ==
    \/ \E t \in Workers : WorkerAcquire(t) /\ UNCHANGED <<storeVars, regVars, multi, fh, oldVars>>
    \/ \E t \in Workers : WorkerLockf(t) /\ UNCHANGED <<storeVars, regVars, multi, fh, oldVars>>
    \/ \E t \in Workers : WorkerWake(t) /\ UNCHANGED <<storeVars, regVars, multi, fh, oldVars>>
    \/ \E t \in Workers : WorkerFail(t) /\ UNCHANGED <<storeVars, regVars, multi, fh, oldVars>>
    \/ \E t \in Workers : WorkerRelease(t) /\ UNCHANGED <<storeVars, regVars, multi, fh, oldVars>>
    \/ \E t \in Workers : WorkerReleaseMutex(t) /\ UNCHANGED <<storeVars, regVars, multi, fh, oldVars>>
    \/ \E t \in Workers : WorkerSuccess(t) /\ UNCHANGED <<storeVars, regVars, multi, fh, oldVars>>

\* Each of the two processes keeps running: none of its steps waits for
\* anything but the byte range of its blocking lockf.
SpecDeadlock ==
    /\ DeadlockInit
    /\ [][DeadlockNext]_vars
    /\ \A t \in Workers : WF_vars(WorkerStep(t))

\* A thread uses the backend while it holds dogpile locks, as a region does
\* around its creator, and another process takes and drops byte ranges of
\* both lock files. The byte budget makes prune attempt deletes.
RegionValues == {[payload |-> [data |-> <<2, 3>>, pos |-> 0, name |-> "path"], metadata |-> "meta"]}

\* The key that get, set and delete are called on.
RegionKeys == {"k1"}

\* The byte ranges that the other process locks: those of that key in both
\* files, and the other key's in rw.lock.
RegionLockerIds == {DogpileLock("k1"), RwLock("k1"), RwLock("k2")}

RegionInit ==
    /\ LockInit
    /\ StoreInit
    /\ RegInit
    /\ expiration_time = NotSet
    /\ cache_size = 2
    /\ file_movable = FALSE

\* mutex = get_mutex(key); mutex.acquire(blocking)
RegionAcquire(t, k, b) ==
    /\ call[t].at = "idle"
    /\ AcquireCall(t, DogpileLock(k), b)
    /\ UNCHANGED storeVars

\* The lockf of an acquire of a dogpile lock.
RegionLockf(t) ==
    /\ call[t].at = "idle"
    /\ AcquireLockf(t)
    /\ UNCHANGED storeVars

\* A thread asleep in lockf for a dogpile lock is woken.
RegionWake(t) ==
    /\ call[t].at = "idle"
    /\ AcquireWake(t)
    /\ UNCHANGED storeVars

\* mutex.release()
RegionRelease(t, k) ==
    /\ call[t].at = "idle"
    /\ ReleaseCall(t, DogpileLock(k))
    /\ UNCHANGED storeVars

\* The finally clause of the release of a dogpile lock.
RegionReleaseMutex(t) ==
    /\ call[t].at = "idle"
    /\ ReleaseMutex(t)
    /\ UNCHANGED storeVars

RegionNext ==
    \/ \E k \in Keys, b \in BOOLEAN : RegionAcquire("t1", k, b) /\ UNCHANGED <<regVars, worker, multi, fh, oldVars>>
    \/ RegionLockf("t1") /\ UNCHANGED <<regVars, worker, multi, fh, oldVars>>
    \/ RegionWake("t1") /\ UNCHANGED <<regVars, worker, multi, fh, oldVars>>
    \/ \E k \in Keys : RegionRelease("t1", k) /\ UNCHANGED <<regVars, worker, multi, fh, oldVars>>
    \/ RegionReleaseMutex("t1") /\ UNCHANGED <<regVars, worker, multi, fh, oldVars>>
    \/ \E k \in RegionKeys, v \in RegionValues : SetCall("t1", k, v) /\ UNCHANGED <<regVars, worker, multi, fh, oldVars>>
    \/ \E k \in RegionKeys : GetCall("t1", k) /\ UNCHANGED <<regVars, worker, multi, fh, oldVars>>
    \/ \E k \in RegionKeys : DeleteCall("t1", k) /\ UNCHANGED <<regVars, worker, multi, fh, oldVars>>
    \/ PruneCall("t1") /\ UNCHANGED <<regVars, worker, multi, fh, oldVars>>
    \/ PruneBegin("t1") /\ UNCHANGED <<regVars, worker, multi, fh, oldVars>>
    \/ PruneLru("t1") /\ UNCHANGED <<regVars, worker, multi, fh, oldVars>>
    \/ SetBuild("t1") /\ UNCHANGED <<regVars, worker, multi, fh, oldVars>>
    \/ SetRenameMetadata("t1") /\ UNCHANGED <<regVars, worker, multi, fh, oldVars>>
    \/ SetRenamePayload("t1") /\ UNCHANGED <<regVars, worker, multi, fh, oldVars>>
    \/ SetUtime("t1") /\ UNCHANGED <<regVars, worker, multi, fh, oldVars>>
    \/ SetExit("t1") /\ UNCHANGED <<regVars, worker, multi, fh, oldVars>>
    \/ GetRead("t1") /\ UNCHANGED <<regVars, worker, multi, fh, oldVars>>
    \/ DeleteFiles("t1") /\ UNCHANGED <<regVars, worker, multi, fh, oldVars>>
    \/ Unlock("t1") /\ UNCHANGED <<regVars, worker, multi, fh, oldVars>>
    \/ EnterLockf("t1") /\ UNCHANGED <<regVars, worker, multi, fh, oldVars>>
    \/ EnterWake("t1") /\ UNCHANGED <<regVars, worker, multi, fh, oldVars>>
    \/ \E id \in RegionLockerIds : OtherLock("p2", id) /\ UNCHANGED <<regVars, worker, multi, fh, oldVars>>
    \/ \E id \in RegionLockerIds : OtherUnlock("p2", id) /\ UNCHANGED <<regVars, worker, multi, fh, oldVars>>

SpecRegion == RegionInit /\ [][RegionNext]_vars

\* A thread asleep on the RLock of a dogpile lock is woken.
RegionMutexWake(t) ==
    /\ call[t].at = "idle"
    /\ AcquireMutexWake(t)
    /\ UNCHANGED storeVars

\* The region's protocol in two processes, one of them with two threads:
\* every thread takes the dogpile lock of the key (waiting for it) or not,
\* calls get and delete on the key, and releases the dogpile lock.
ProtocolThreads == Threads

ProtocolNext ==
    \/ \E t \in ProtocolThreads, k \in RegionKeys : RegionAcquire(t, k, TRUE) /\ UNCHANGED <<regVars, worker, multi, fh, oldVars>>
    \/ \E t \in ProtocolThreads : RegionMutexWake(t) /\ UNCHANGED <<regVars, worker, multi, fh, oldVars>>
    \/ \E t \in ProtocolThreads : RegionLockf(t) /\ UNCHANGED <<regVars, worker, multi, fh, oldVars>>
    \/ \E t \in ProtocolThreads : RegionWake(t) /\ UNCHANGED <<regVars, worker, multi, fh, oldVars>>
    \/ \E t \in ProtocolThreads, k \in RegionKeys : RegionRelease(t, k) /\ UNCHANGED <<regVars, worker, multi, fh, oldVars>>
    \/ \E t \in ProtocolThreads : RegionReleaseMutex(t) /\ UNCHANGED <<regVars, worker, multi, fh, oldVars>>
    \/ \E t \in ProtocolThreads, k \in RegionKeys : GetCall(t, k) /\ UNCHANGED <<regVars, worker, multi, fh, oldVars>>
    \/ \E t \in ProtocolThreads, k \in RegionKeys : DeleteCall(t, k) /\ UNCHANGED <<regVars, worker, multi, fh, oldVars>>
    \/ \E t \in ProtocolThreads : GetRead(t) /\ UNCHANGED <<regVars, worker, multi, fh, oldVars>>
    \/ \E t \in ProtocolThreads : DeleteFiles(t) /\ UNCHANGED <<regVars, worker, multi, fh, oldVars>>
    \/ \E t \in ProtocolThreads : Unlock(t) /\ UNCHANGED <<regVars, worker, multi, fh, oldVars>>
    \/ \E t \in ProtocolThreads : EnterMutexWake(t) /\ UNCHANGED <<regVars, worker, multi, fh, oldVars>>
    \/ \E t \in ProtocolThreads : EnterLockf(t) /\ UNCHANGED <<regVars, worker, multi, fh, oldVars>>
    \/ \E t \in ProtocolThreads : EnterWake(t) /\ UNCHANGED <<regVars, worker, multi, fh, oldVars>>

SpecProtocol == RegionInit /\ [][ProtocolNext]_vars

\* The steps of a thread that runs: the code between two calls that can sleep.
ProtocolRun(t) ==
    \/ RegionLockf(t) /\ UNCHANGED <<regVars, worker, multi, fh, oldVars>>
    \/ RegionReleaseMutex(t) /\ UNCHANGED <<regVars, worker, multi, fh, oldVars>>
    \/ GetRead(t) /\ UNCHANGED <<regVars, worker, multi, fh, oldVars>>
    \/ DeleteFiles(t) /\ UNCHANGED <<regVars, worker, multi, fh, oldVars>>
    \/ Unlock(t) /\ UNCHANGED <<regVars, worker, multi, fh, oldVars>>
    \/ EnterLockf(t) /\ UNCHANGED <<regVars, worker, multi, fh, oldVars>>

\* The steps that end a sleep: RLock.acquire or a blocking lockf returns.
ProtocolWake(t) ==
    \/ RegionMutexWake(t) /\ UNCHANGED <<regVars, worker, multi, fh, oldVars>>
    \/ RegionWake(t) /\ UNCHANGED <<regVars, worker, multi, fh, oldVars>>
    \/ EnterMutexWake(t) /\ UNCHANGED <<regVars, worker, multi, fh, oldVars>>
    \/ EnterWake(t) /\ UNCHANGED <<regVars, worker, multi, fh, oldVars>>

\* The threads of the progress scenario: which of them take the dogpile lock
\* of the key, which call get and which call delete.
ProgressLockers == {"t1", "t2", "u1"}

ProgressGetters == {"t1", "t2"}

ProgressDeleters == {"u1"}

ProgressNext ==
    \/ \E t \in ProgressLockers, k \in RegionKeys : RegionAcquire(t, k, TRUE) /\ UNCHANGED <<regVars, worker, multi, fh, oldVars>>
    \/ \E t \in ProgressLockers, k \in RegionKeys : RegionRelease(t, k) /\ UNCHANGED <<regVars, worker, multi, fh, oldVars>>
    \/ \E t \in ProgressGetters, k \in RegionKeys : GetCall(t, k) /\ UNCHANGED <<regVars, worker, multi, fh, oldVars>>
    \/ \E t \in ProgressDeleters, k \in RegionKeys : DeleteCall(t, k) /\ UNCHANGED <<regVars, worker, multi, fh, oldVars>>
    \/ \E t \in ProtocolThreads : ProtocolRun(t)
    \/ \E t \in ProtocolThreads : ProtocolWake(t)

\* Fair scheduling: a thread that can run does, and a sleeper whose lock is
\* free again and again gets it.  Which calls a thread makes, and whether it
\* releases a dogpile lock, is left to the thread.
SpecProgress ==
    /\ RegionInit
    /\ [][ProgressNext]_vars
    /\ \A t \in ProtocolThreads : WF_vars(ProtocolRun(t))
    /\ \A t \in ProtocolThreads : SF_vars(ProtocolWake(t))

\* One thread sets and prunes on a store that is not empty when the backend
\* is made, while another process takes and drops the rw locks of the keys.
\* The options: no TTL and no byte budget, a TTL alone, a byte budget alone.
PruneConfigs ==
    {[expiration_time |-> NotSet, cache_size |-> NotSet, file_movable |-> FALSE],
     [expiration_time |-> 1, cache_size |-> NotSet, file_movable |-> FALSE],
     [expiration_time |-> NotSet, cache_size |-> 2, file_movable |-> FALSE]}

\* The key that is set; the other key holds what the store started with.
PruneKeys == {"k1"}

PruneValues ==
    {[payload |-> [data |-> <<1>>, pos |-> 0, name |-> "path"], metadata |-> None],
     [payload |-> [data |-> <<2, 3>>, pos |-> 1, name |-> "path"], metadata |-> "meta"]}

\* What a key holds when the backend is made: nothing, or the entry that a
\* set of an earlier run left, with the time of that set.
PruneEntries ==
    {NoCommit} \cup
    {[kind |-> "hit", sid |-> 0, value |-> v, mtime |-> m, asked |-> v, asked_now |-> m] :
        v \in PruneValues, m \in {InitClock - 1}}

PruneInit ==
    /\ LockInit
    /\ RegInit
    /\ multi = NoMulti
    /\ fh = NoFh
    /\ OldInit
    /\ clock = InitClock
    /\ call = [t \in Threads |-> Idle]
    /\ out = NoOut
    /\ nset = 0
    /\ committed \in [Keys -> PruneEntries]
    /\ payload = [k \in Keys |->
          IF committed[k].kind = "miss" THEN NoPayload
          ELSE [exists |-> TRUE, data |-> CopyFileObj(committed[k].value.payload.data),
                sid |-> 0, mtime |-> committed[k].mtime]]
    /\ metadata = [k \in Keys |->
          IF committed[k].kind = "miss" THEN NoMetadata
          ELSE [exists |-> TRUE,
                original_file_offset |-> committed[k].value.payload.pos,
                dogpile_metadata |-> committed[k].value.metadata,
                sid |-> 0, mtime |-> committed[k].mtime]]
    /\ \E cfg \in PruneConfigs :
          /\ expiration_time = cfg.expiration_time
          /\ cache_size = cfg.cache_size
          /\ file_movable = cfg.file_movable

\* Time passes; without a TTL no step of the backend reads a file's age.
PruneTick ==
    /\ expiration_time # NotSet
    /\ Tick

PruneNext ==
    \/ \E k \in PruneKeys, v \in PruneValues : SetCall("t1", k, v) /\ UNCHANGED <<regVars, worker, multi, fh, oldVars>>
    \/ PruneCall("t1") /\ UNCHANGED <<regVars, worker, multi, fh, oldVars>>
    \/ PruneBegin("t1") /\ UNCHANGED <<regVars, worker, multi, fh, oldVars>>
    \/ PruneTtl("t1") /\ UNCHANGED <<regVars, worker, multi, fh, oldVars>>
    \/ PruneLru("t1") /\ UNCHANGED <<regVars, worker, multi, fh, oldVars>>
    \/ SetBuild("t1") /\ UNCHANGED <<regVars, worker, multi, fh, oldVars>>
    \/ SetRenameMetadata("t1") /\ UNCHANGED <<regVars, worker, multi, fh, oldVars>>
    \/ SetRenamePayload("t1") /\ UNCHANGED <<regVars, worker, multi, fh, oldVars>>
    \/ SetUtime("t1") /\ UNCHANGED <<regVars, worker, multi, fh, oldVars>>
    \/ SetExit("t1") /\ UNCHANGED <<regVars, worker, multi, fh, oldVars>>
    \/ Unlock("t1") /\ UNCHANGED <<regVars, worker, multi, fh, oldVars>>
    \/ EnterLockf("t1") /\ UNCHANGED <<regVars, worker, multi, fh, oldVars>>
    \/ EnterWake("t1") /\ UNCHANGED <<regVars, worker, multi, fh, oldVars>>
    \/ PruneTick /\ UNCHANGED <<regVars, worker, multi, fh, oldVars>>
    \/ \E id \in RwIds : OtherLock("p2", id) /\ UNCHANGED <<regVars, worker, multi, fh, oldVars>>
    \/ \E id \in RwIds : OtherUnlock("p2", id) /\ UNCHANGED <<regVars, worker, multi, fh, oldVars>>

SpecPrune == PruneInit /\ [][PruneNext]_vars

\* prune() alone, called again and again on the stores of PruneInit, while
\* another process takes and drops the rw locks of the keys.
PruneOnlyNext ==
    \/ PruneCall("t1") /\ UNCHANGED <<regVars, worker, multi, fh, oldVars>>
    \/ PruneTtl("t1") /\ UNCHANGED <<regVars, worker, multi, fh, oldVars>>
    \/ PruneLru("t1") /\ UNCHANGED <<regVars, worker, multi, fh, oldVars>>
    \/ PruneTick /\ UNCHANGED <<regVars, worker, multi, fh, oldVars>>
    \/ \E id \in RwIds : OtherLock("p2", id) /\ UNCHANGED <<regVars, worker, multi, fh, oldVars>>
    \/ \E id \in RwIds : OtherUnlock("p2", id) /\ UNCHANGED <<regVars, worker, multi, fh, oldVars>>

\* The thread that prunes is not stopped for ever: the loops of prune have no
\* call that waits (attempt_delete_key acquires without blocking).
SpecPruneFair ==
    /\ PruneInit
    /\ [][PruneOnlyNext]_vars
    /\ WF_vars(PruneTtl("t1") /\ UNCHANGED <<regVars, worker, multi, fh, oldVars>>)
    /\ WF_vars(PruneLru("t1") /\ UNCHANGED <<regVars, worker, multi, fh, oldVars>>)

\* ---------------------------------------------------- attempt_delete_key
\* The loops of prune with attempt_delete_key step by step. The next turn
\* of the TTL loop or of the while loop: rw_lock.acquire(blocking=False) is
\* called for the key's rw lock; or prune returns.
PruneStep(t) ==
    LET c == call[t]
    IN  /\ c.at = "prune_ttl"
        /\ pc[t] = "idle"
        /\ IF c.todo # {}
           THEN /\ \E k \in c.todo :
                     /\ call' = [call EXCEPT ![t] =
                           [c EXCEPT !.at = "attempt", !.attempt = k, !.todo = @ \ {k}]]
                     /\ AcquireMutex(t, RwLock(k), FALSE)
                /\ out' = out
           ELSE IF cache_size # NotSet /\ c.order # <<>>
                   /\ SumSizes(c.desc, c.order) > cache_size
           THEN LET k == c.order[Len(c.order)]
                IN  /\ call' = [call EXCEPT ![t] =
                          [c EXCEPT !.at = "attempt", !.attempt = k,
                                    !.order = SubSeq(@, 1, Len(@) - 1),
                                    !.tries = @ + 1]]
                    /\ AcquireMutex(t, RwLock(k), FALSE)
                    /\ out' = out
           ELSE /\ PruneReturn(t, c)
                /\ UNCHANGED lockVars
        /\ UNCHANGED <<payload, metadata, committed, clock, configVars, nset>>

\* What _delete_key_files leaves of the key's two files: both removed, or,
\* when an exception that remove_or_warn does not catch (KeyboardInterrupt,
\* MemoryError) ends it, none or the payload file only.
RemovalOutcomes == {"removed", "raised_first", "raised_second"}

\* Mutant: attempt_delete_key without rw_lock.release(): the loop of prune
\* goes on with the lock held.
AttemptRemove_KeepsLock(t) ==
    LET c == call[t]
        k == c.attempt
    IN  /\ c.at = "attempt"
        /\ pc[t] = "idle"
        /\ call' = [call EXCEPT ![t] =
              [c EXCEPT !.at = "prune_ttl", !.attempt = None,
                        !.refused = IF holds[t][RwLock(k)] = 0 THEN @ \cup {k} ELSE @]]
        /\ IF holds[t][RwLock(k)] = 0
           THEN UNCHANGED <<payload, metadata, committed>>
           ELSE DeleteKeyFiles({k})
        /\ UNCHANGED lockVars
        /\ out' = out
        /\ UNCHANGED <<clock, configVars, nset>>

\* Mutant: attempt_delete_key without try/finally: an exception in the
\* removal leaves the function with the lock held.
AttemptRemove_NoFinally(t) ==
    LET c == call[t]
        k == c.attempt
    IN  /\ c.at = "attempt"
        /\ pc[t] = "idle"
        /\ IF holds[t][RwLock(k)] = 0
           THEN /\ call' = [call EXCEPT ![t] =
                      [c EXCEPT !.at = "prune_ttl", !.attempt = None,
                                !.refused = @ \cup {k}]]
                /\ UNCHANGED <<payload, metadata, committed, out>>
                /\ UNCHANGED lockVars
           ELSE \E o \in RemovalOutcomes :
                  /\ IF o = "removed" THEN DeleteKeyFiles({k})
                     ELSE IF o = "raised_second" THEN DeleteKeyFiles_PayloadOnly({k})
                     ELSE UNCHANGED <<payload, metadata, committed>>
                  /\ IF o = "removed"
                     THEN /\ ReleaseCall(t, RwLock(k))
                          /\ call' = [call EXCEPT ![t] = [c EXCEPT !.at = "attempt_release"]]
                          /\ out' = out
                     ELSE /\ Done(t, [NoOut EXCEPT !.thread = t, !.name = c.name,
                                                   !.key = k, !.kind = "KeyboardInterrupt"])
                          /\ UNCHANGED lockVars
        /\ UNCHANGED <<clock, configVars, nset>>

\* attempt_delete_key after acquire returned: False, and the attempt is
\* over; or True, and _delete_key_files runs in the try block, followed in
\* the finally clause by rw_lock.release(), whose first part unlocks the
\* byte range.
AttemptRemove(t) ==
    LET c == call[t]
        k == c.attempt
    IN  /\ c.at = "attempt"
        /\ pc[t] = "idle"
        /\ IF holds[t][RwLock(k)] = 0
           THEN /\ call' = [call EXCEPT ![t] =
                      [c EXCEPT !.at = "prune_ttl", !.attempt = None,
                                !.refused = @ \cup {k}]]
                /\ UNCHANGED <<payload, metadata, committed>>
                /\ UNCHANGED lockVars
           ELSE \E o \in RemovalOutcomes :
                  /\ IF o = "removed" THEN DeleteKeyFiles({k})
                     ELSE IF o = "raised_second" THEN DeleteKeyFiles_PayloadOnly({k})
                     ELSE UNCHANGED <<payload, metadata, committed>>
                  /\ ReleaseCall(t, RwLock(k))
                  /\ call' = [call EXCEPT ![t] =
                        [c EXCEPT !.at = IF o = "removed" THEN "attempt_release"
                                         ELSE "attempt_raise"]]
        /\ out' = out
        /\ UNCHANGED <<clock, configVars, nset>>

\* The end of the finally clause: release() gives up the RLock; the loop of
\* prune goes on, or the exception leaves prune and the call that made it.
AttemptRelease(t) ==
    LET c == call[t]
    IN  /\ c.at \in {"attempt_release", "attempt_raise"}
        /\ ReleaseMutex(t)
        /\ IF c.at = "attempt_release"
           THEN /\ call' = [call EXCEPT ![t] = [c EXCEPT !.at = "prune_ttl", !.attempt = None]]
                /\ out' = out
           ELSE Done(t, [NoOut EXCEPT !.thread = t, !.name = c.name, !.key = c.attempt,
                                      !.kind = "KeyboardInterrupt"])
        /\ UNCHANGED <<payload, metadata, committed, clock, configVars, nset>>

\* A thread prunes while a second thread of its process and a thread of
\* another process make gets: every one of them takes the rw locks as the
\* backend does. Both keys have their files at first; the
\* options are a byte budget that they exceed, or a TTL that one or both
\* have outlived.
AttemptConfigs ==
    {[expiration_time |-> NotSet, cache_size |-> 2, file_movable |-> FALSE],
     [expiration_time |-> 1, cache_size |-> NotSet, file_movable |-> FALSE]}

AttemptPruners == {"t1"}

AttemptOthers == {"t2", "u1"}

AttemptValue == [payload |-> [data |-> <<1>>, pos |-> 0, name |-> "path"], metadata |-> None]

\* The last-modified times of the two entries: the same, or the first key
\* the older.
AttemptTimes ==
    {m \in [Keys -> {InitClock - 2, InitClock - 1}] : m["k1"] = InitClock - 2}

AttemptInit ==
    /\ LockInit
    /\ RegInit
    /\ multi = NoMulti
    /\ fh = NoFh
    /\ OldInit
    /\ clock = InitClock
    /\ call = [t \in Threads |-> Idle]
    /\ out = NoOut
    /\ nset = 0
    /\ \E m \in AttemptTimes :
          /\ committed = [k \in Keys |->
                [kind |-> "hit", sid |-> 0, value |-> AttemptValue, mtime |-> m[k],
                 asked |-> AttemptValue, asked_now |-> m[k]]]
          /\ payload = [k \in Keys |->
                [exists |-> TRUE, data |-> AttemptValue.payload.data, sid |-> 0,
                 mtime |-> m[k]]]
          /\ metadata = [k \in Keys |->
                [exists |-> TRUE, original_file_offset |-> AttemptValue.payload.pos,
                 dogpile_metadata |-> AttemptValue.metadata, sid |-> 0, mtime |-> m[k]]]
    /\ \E cfg \in AttemptConfigs :
          /\ expiration_time = cfg.expiration_time
          /\ cache_size = cfg.cache_size
          /\ file_movable = cfg.file_movable

AttemptNext ==
    \/ \E t \in AttemptPruners : PruneCall(t) /\ UNCHANGED <<regVars, worker, multi, fh, oldVars>>
    \/ \E t \in AttemptPruners : PruneStep(t) /\ UNCHANGED <<regVars, worker, multi, fh, oldVars>>
    \/ \E t \in AttemptPruners : AttemptRemove(t) /\ UNCHANGED <<regVars, worker, multi, fh, oldVars>>
    \/ \E t \in AttemptPruners : AttemptRelease(t) /\ UNCHANGED <<regVars, worker, multi, fh, oldVars>>
    \/ \E t \in AttemptOthers, k \in Keys : GetCall(t, k) /\ UNCHANGED <<regVars, worker, multi, fh, oldVars>>
    \/ \E t \in AttemptOthers : GetRead(t) /\ UNCHANGED <<regVars, worker, multi, fh, oldVars>>
    \/ \E t \in Threads : Unlock(t) /\ UNCHANGED <<regVars, worker, multi, fh, oldVars>>
    \/ \E t \in Threads : EnterMutexWake(t) /\ UNCHANGED <<regVars, worker, multi, fh, oldVars>>
    \/ \E t \in Threads : EnterLockf(t) /\ UNCHANGED <<regVars, worker, multi, fh, oldVars>>
    \/ \E t \in Threads : EnterWake(t) /\ UNCHANGED <<regVars, worker, multi, fh, oldVars>>

SpecAttempt == AttemptInit /\ [][AttemptNext]_vars

\* ------------------------------------------------ the four calls together
\* Threads of two processes call get, set and delete on two keys, and set
\* calls prune: t1 sets, t2 of the same process gets, u1 of the other process
\* deletes. The prune of a set and its attempt_delete_key are followed step
\* by step.
CoreSetters == {"t1"}

CoreGetters == {"t2"}

CoreDeleters == {"u1"}

CoreSetKeys == {"k1"}

CoreValues == {[payload |-> [data |-> <<1>>, pos |-> 0, name |-> "path"], metadata |-> None]}

\* A byte budget that the two entries exceed, no TTL.
CoreInit ==
    /\ AttemptInit
    /\ expiration_time = NotSet
    /\ \A k \in Keys : payload[k].mtime = InitClock - 2

CoreNext ==
    \/ \E t \in CoreSetters, k \in CoreSetKeys, v \in CoreValues : SetCall(t, k, v) /\ UNCHANGED <<regVars, worker, multi, fh, oldVars>>
    \/ \E t \in CoreSetters : PruneBegin(t) /\ UNCHANGED <<regVars, worker, multi, fh, oldVars>>
    \/ \E t \in Threads : PruneStep(t) /\ UNCHANGED <<regVars, worker, multi, fh, oldVars>>
    \/ \E t \in Threads : AttemptRemove(t) /\ UNCHANGED <<regVars, worker, multi, fh, oldVars>>
    \/ \E t \in Threads : AttemptRelease(t) /\ UNCHANGED <<regVars, worker, multi, fh, oldVars>>
    \/ \E t \in CoreSetters : SetBuild(t) /\ UNCHANGED <<regVars, worker, multi, fh, oldVars>>
    \/ \E t \in CoreSetters : SetRenameMetadata(t) /\ UNCHANGED <<regVars, worker, multi, fh, oldVars>>
    \/ \E t \in CoreSetters : SetRenamePayload(t) /\ UNCHANGED <<regVars, worker, multi, fh, oldVars>>
    \/ \E t \in CoreSetters : SetUtime(t) /\ UNCHANGED <<regVars, worker, multi, fh, oldVars>>
    \/ \E t \in CoreSetters : SetExit(t) /\ UNCHANGED <<regVars, worker, multi, fh, oldVars>>
    \/ \E t \in CoreGetters, k \in Keys : GetCall(t, k) /\ UNCHANGED <<regVars, worker, multi, fh, oldVars>>
    \/ \E t \in CoreGetters : GetRead(t) /\ UNCHANGED <<regVars, worker, multi, fh, oldVars>>
    \/ \E t \in CoreDeleters, k \in Keys : DeleteCall(t, k) /\ UNCHANGED <<regVars, worker, multi, fh, oldVars>>
    \/ \E t \in CoreDeleters : DeleteFiles(t) /\ UNCHANGED <<regVars, worker, multi, fh, oldVars>>
    \/ \E t \in Threads : Unlock(t) /\ UNCHANGED <<regVars, worker, multi, fh, oldVars>>
    \/ \E t \in Threads : EnterMutexWake(t) /\ UNCHANGED <<regVars, worker, multi, fh, oldVars>>
    \/ \E t \in Threads : EnterLockf(t) /\ UNCHANGED <<regVars, worker, multi, fh, oldVars>>
    \/ \E t \in Threads : EnterWake(t) /\ UNCHANGED <<regVars, worker, multi, fh, oldVars>>

SpecCore == CoreInit /\ [][CoreNext]_vars

\* prune() called again and again while the set of rw locks that another
\* process holds stays as it is. The store starts with entries of two ages;
\* the options are those of PruneConfigs and a TTL with a byte budget.
TwiceConfigs ==
    PruneConfigs \cup
    {[expiration_time |-> 1, cache_size |-> 2, file_movable |-> FALSE]}

TwiceEntries ==
    {NoCommit} \cup
    {[kind |-> "hit", sid |-> 0, value |-> v, mtime |-> m, asked |-> v, asked_now |-> m] :
        v \in PruneValues, m \in {InitClock - 2, InitClock - 1}}

TwiceInit ==
    /\ thread_lock = [p \in Procs, id \in LockIds |-> RLockFree]
    /\ counter = [p \in Procs, id \in LockIds |-> 0]
    /\ \E H \in SUBSET Keys :
          oslock = [id \in LockIds |->
                      IF \E k \in H : id = RwLock(k) THEN "p2" ELSE None]
    /\ pc = [t \in Threads |-> "idle"]
    /\ arg = [t \in Threads |-> NoCall]
    /\ holds = [t \in Threads |-> [id \in LockIds |-> 0]]
    /\ saved = [t \in Threads |-> NoSaved]
    /\ last = NoLast
    /\ RegInit
    /\ multi = NoMulti
    /\ fh = NoFh
    /\ OldInit
    /\ clock = InitClock
    /\ call = [t \in Threads |-> Idle]
    /\ out = NoOut
    /\ nset = 0
    /\ committed \in [Keys -> TwiceEntries]
    /\ payload = [k \in Keys |->
          IF committed[k].kind = "miss" THEN NoPayload
          ELSE [exists |-> TRUE, data |-> CopyFileObj(committed[k].value.payload.data),
                sid |-> 0, mtime |-> committed[k].mtime]]
    /\ metadata = [k \in Keys |->
          IF committed[k].kind = "miss" THEN NoMetadata
          ELSE [exists |-> TRUE,
                original_file_offset |-> committed[k].value.payload.pos,
                dogpile_metadata |-> committed[k].value.metadata,
                sid |-> 0, mtime |-> committed[k].mtime]]
    /\ \E cfg \in TwiceConfigs :
          /\ expiration_time = cfg.expiration_time
          /\ cache_size = cfg.cache_size
          /\ file_movable = cfg.file_movable

TwiceNext ==
    \/ PruneCall("t1") /\ UNCHANGED <<regVars, worker, multi, fh, oldVars>>
    \/ PruneTtl("t1") /\ UNCHANGED <<regVars, worker, multi, fh, oldVars>>
    \/ PruneLru("t1") /\ UNCHANGED <<regVars, worker, multi, fh, oldVars>>
    \/ PruneTick /\ UNCHANGED <<regVars, worker, multi, fh, oldVars>>

SpecPruneTwice == TwiceInit /\ [][TwiceNext]_vars

\* A backend is made with each value of distributed_lock, on an empty
\* base_dir, before any lock was looked up.
RegSpecInit ==
    /\ LockInit
    /\ StoreInit
    /\ expiration_time = NotSet
    /\ cache_size = NotSet
    /\ file_movable = FALSE
    /\ worker = [t \in Threads |-> NoWorker]
    /\ heap = [p \in Procs |-> [o \in Objs |-> NoObj]]
    /\ registry = [p \in Procs |-> NoRegistry]
    /\ ref = [t \in Threads |-> NoRef]
    /\ look = [t \in Threads |-> NoLook]
    /\ rout = NoRout
    /\ forked = FALSE
    /\ distributed_lock \in DistributedLockValues

\* The threads that act: the parent's thread until it forks, then the two
\* threads of the child, for which the parent waits (proc.join()).
RegThreads == IF forked THEN {t \in Threads : Pid(t) = Child} ELSE {t \in Threads : Pid(t) = Parent}

\* The threads of a parent process and of the child it forks look the
\* dogpile locks of the keys up, take them without waiting, release them and
\* lose their references, for each value of distributed_lock.
RegNext ==
    \/ \E t \in RegThreads, k \in Keys : GetMutex(t, k) /\ UNCHANGED <<lockRest, storeVars, worker, multi, fh, oldVars>>
    \/ \E t \in RegThreads : RegStorePid(t) /\ UNCHANGED <<lockRest, storeVars, worker, multi, fh, oldVars>>
    \/ \E t \in RegThreads : RegStoreRegistry(t) /\ UNCHANGED <<lockRest, storeVars, worker, multi, fh, oldVars>>
    \/ \E t \in RegThreads : RegGet(t) /\ UNCHANGED <<lockRest, storeVars, worker, multi, fh, oldVars>>
    \/ \E t \in RegThreads : Drop(t) /\ UNCHANGED <<lockRest, storeVars, worker, multi, fh, oldVars>>
    \/ \E t \in RegThreads : ObjAcquire(t) /\ UNCHANGED <<lockRest, storeVars, worker, multi, fh, oldVars>>
    \/ \E t \in RegThreads : ObjRelease(t) /\ UNCHANGED <<lockRest, storeVars, worker, multi, fh, oldVars>>
    \/ Fork /\ UNCHANGED <<lockRest, storeVars, worker, multi, fh, oldVars>>

SpecRegistry == RegSpecInit /\ [][RegNext]_vars

\* ----------------------------------------------------- the oldest prune
(***************************************************************************)
(* dogpile_cache_file_system_backend.FilesBackend: set and the _prune it    *)
(* starts with.  An entry is three files, payload, metadata and type; the   *)
(* first two are in payload and metadata, the third in type_file.           *)
(***************************************************************************)
\* The size of a pickled type name ('file' or 'value').
TypeSize == 1

OldestSetters == {"t1"}

OldestKeys == Keys

OldestValues ==
    {[payload |-> [data |-> <<1>>, pos |-> 0, name |-> "path"], metadata |-> None],
     [payload |-> [data |-> <<2, 3>>, pos |-> 1, name |-> "path"], metadata |-> "meta"]}

\* cache_size of the scenarios: room for one entry, or for two but the
\* largest two.
OldestBudgets == {4, 7}

OldestTtls == {NotSet, 2}

\* The last-modified times of the entries that earlier runs left.
OldestTimes == {InitClock - 1, InitClock}

\* The backend is made on a directory that holds, for every key, nothing or
\* the three files that a set of an earlier run left.
OldestInit ==
    /\ LockInit
    /\ RegInit
    /\ multi = NoMulti
    /\ fh = NoFh
    /\ lock_file = [p \in Procs, id \in LockIds |-> TRUE]
    /\ fds = [t \in Threads |-> [id \in LockIds |-> None]]
    /\ clock = InitClock
    /\ call = [t \in Threads |-> Idle]
    /\ out = NoOut
    /\ nset = 0
    /\ committed = [k \in Keys |-> NoCommit]
    /\ type_file \in [Keys -> BOOLEAN]
    /\ \E vs \in [Keys -> OldestValues], ms \in [Keys -> OldestTimes] :
          /\ payload = [k \in Keys |->
                IF type_file[k]
                THEN [exists |-> TRUE, data |-> CopyFileObj(vs[k].payload.data),
                      sid |-> 0, mtime |-> ms[k]]
                ELSE NoPayload]
          /\ metadata = [k \in Keys |->
                IF type_file[k]
                THEN [NoMetadata EXCEPT !.exists = TRUE,
                                        !.dogpile_metadata = vs[k].metadata,
                                        !.mtime = ms[k]]
                ELSE NoMetadata]
    /\ expiration_time \in OldestTtls
    /\ cache_size \in OldestBudgets
    /\ file_movable = FALSE

\* _list_keys_with_desc: the keys that have any of the three files, with the
\* payload's time (the epoch when it is missing) and the sizes of the files
\* that exist.
OldestKeysWithDesc ==
    [k \in Keys |->
        IF payload[k].exists \/ metadata[k].exists \/ type_file[k]
        THEN [last_modified |-> LastModified(k),
              size |-> PayloadSize(k) + MetadataSize(k)
                       + (IF type_file[k] THEN TypeSize ELSE 0)]
        ELSE NoDesc]

OldestListed == {k \in Keys : payload[k].exists \/ metadata[k].exists \/ type_file[k]}

\* The while loop of _prune: the sum is taken over remaining_keys, which the
\* loop does not change, and the key popped from the end of keys_by_newest
\* is attempted.  The keys the loop attempts.
RECURSIVE OldestLoop(_, _, _)
OldestLoop(desc, remaining_keys, keys_by_newest) ==
    IF SumSizes(desc, CHOOSE o \in Orderings(remaining_keys) : TRUE) > cache_size
       /\ keys_by_newest # <<>>
    THEN {keys_by_newest[Len(keys_by_newest)]}
         \cup OldestLoop(desc, remaining_keys,
                         SubSeq(keys_by_newest, 1, Len(keys_by_newest) - 1))
    ELSE {}

\* _prune() by a thread of process p: the listing, the TTL pass, which takes
\* the expired keys out of remaining_keys, and the loop.  attempt_delete_key
\* removes the payload and the metadata file of a key whose byte range no
\* other process holds, and releasing its lock closes a descriptor of
\* rw.lock.
OldestPrune(p) ==
    LET desc == OldestKeysWithDesc
        keys == OldestListed
        expired == ExpiredKeys(desc, keys, clock)
        remaining_keys == keys \ expired
    IN  \E keys_by_newest \in KeysByNewest(remaining_keys, desc) :
          LET attempted == expired \cup OldestLoop(desc, remaining_keys, keys_by_newest)
              removed == {k \in attempted : oslock[RwLock(k)] \in {None, p}}
          IN  /\ payload' = [k \in Keys |-> IF k \in removed THEN NoPayload ELSE payload[k]]
              /\ metadata' = [k \in Keys |-> IF k \in removed THEN NoMetadata ELSE metadata[k]]
              /\ oslock' = IF attempted = {} THEN oslock ELSE OsClose(p, RwLock("k1"))

\* set(key, value) is called: self._prune(), then the temporary files.
OldestSetCall(t, k, v) ==
    /\ call[t].at = "idle"
    /\ pc[t] = "idle"
    /\ nset < MaxSets
    /\ nset' = nset + 1
    /\ OldestPrune(Pid(t))
    /\ call' = [call EXCEPT ![t] = [Idle EXCEPT !.name = "set", !.at = "oldest_write",
                                                !.key = k, !.value = v, !.now = clock]]
    /\ UNCHANGED <<clock, configVars, out, committed, type_file>>
    /\ UNCHANGED <<thread_lock, counter, pc, arg, holds, saved, last>>
    /\ UNCHANGED <<regVars, worker, multi, fh, lock_file, fds>>

\* set, the locked section: the three temporary files are renamed to the
\* key's paths under the key's write lock, which is waited for; leaving the
\* section closes the lock's descriptor.
OldestSetWrite(t) ==
    LET c == call[t]
        k == c.key
    IN  /\ c.at = "oldest_write"
        /\ oslock[RwLock(k)] \in {None, Pid(t)}
        /\ metadata' = [metadata EXCEPT ![k] =
               [NoMetadata EXCEPT !.exists = TRUE,
                                  !.dogpile_metadata = c.value.metadata,
                                  !.mtime = clock]]
        /\ type_file' = [type_file EXCEPT ![k] = TRUE]
        /\ payload' = [payload EXCEPT ![k] =
               [exists |-> TRUE, data |-> CopyFileObj(c.value.payload.data),
                sid |-> 0, mtime |-> clock]]
        /\ oslock' = OsClose(Pid(t), RwLock(k))
        /\ call' = [call EXCEPT ![t] = Idle]
        /\ out' = [NoOut EXCEPT !.thread = t, !.name = "set", !.key = k, !.kind = "ok",
                                !.value = c.value, !.now = clock]
        /\ UNCHANGED <<clock, configVars, nset, committed>>
        /\ UNCHANGED <<thread_lock, counter, pc, arg, holds, saved, last>>
        /\ UNCHANGED <<regVars, worker, multi, fh, lock_file, fds>>

OldestPruneNext ==
    \/ \E t \in OldestSetters, k \in OldestKeys, v \in OldestValues : OldestSetCall(t, k, v)
    \/ \E t \in OldestSetters : OldestSetWrite(t)
    \/ Tick /\ UNCHANGED <<regVars, worker, multi, fh, oldVars>>

SpecOldestPrune == OldestInit /\ [][OldestPruneNext]_vars

\* ------------------------------------------------- properties of the lock

Holders(id) == {t \in Threads : holds[t][id] > 0}

\* A call of `op` on lock `id` by thread t returns in this step.
Returned(t, op, id) ==
    /\ last'.thread = t
    /\ last'.op = op
    /\ last'.id = id
    /\ pc'[t] = "idle"
    /\ (pc[t] # "idle" \/ last' # last \/ holds'[t] # holds[t])

\* C1: for every lock identifier at most one thread, over all processes,
\* holds the lock (is between a successful acquire and its release), and
\* while a thread holds it no acquire of another thread on that identifier
\* returns True: a non-blocking acquire returns False.
C1_MutualExclusion ==
    /\ [](\A id \in LockIds : Cardinality(Holders(id)) <= 1)
    /\ [][\A id \in LockIds : \A t \in Threads :
            (Holders(id) \ {t} # {} /\ Returned(t, "acquire", id))
                => /\ last'.result # "True"
                   /\ ~last'.blocking => last'.result = "False"]_vars

\* C1 witness: a thread of another process got False from acquire(False)
\* while the holder still holds the lock.
C1_Witness ==
    /\ last.op = "acquire" /\ ~last.blocking /\ last.result = "False"
    /\ \E h \in Holders(last.id) : Pid(h) # Pid(last.thread)

\* Thread t is inside a call on the lock object of identifier id.
InCall(t, id) == pc[t] # "idle" /\ arg[t].id = id

\* C2: after N successful acquires by a thread the lock stays held (the
\* process owns the byte range, the thread owns the RLock, the counter is the
\* number of acquires still to release) until N releases were made, and it is
\* free after them; a holder's further acquire returns True without waiting;
\* the byte range is taken only when the counter goes from 0 to 1 and dropped
\* only when it goes from 1 to 0.
C2_Reentrancy ==
    /\ [](\A id \in LockIds : \A t \in Threads :
            /\ holds[t][id] > 0 =>
                 /\ oslock[id] = Pid(t)
                 /\ thread_lock[Pid(t), id] = [owner |-> t, count |-> holds[t][id]]
                 /\ counter[Pid(t), id] = holds[t][id]
                 /\ ~InCall(t, id)
            /\ (\A u \in Threads : Pid(u) = Pid(t) => holds[u][id] = 0 /\ ~InCall(u, id)) =>
                 /\ oslock[id] # Pid(t)
                 /\ thread_lock[Pid(t), id] = RLockFree
                 /\ counter[Pid(t), id] = 0)
    /\ [][\A id \in LockIds : \A t \in Threads :
            /\ (holds[t][id] > 0 /\ Returned(t, "acquire", id)) =>
                 last'.result = "True" /\ holds'[t][id] = holds[t][id] + 1
            /\ (oslock[id] # Pid(t) /\ oslock'[id] = Pid(t)) =>
                 counter[Pid(t), id] = 0 /\ counter'[Pid(t), id] = 1
            /\ (oslock[id] = Pid(t) /\ oslock'[id] # Pid(t)) =>
                 counter[Pid(t), id] = 1 /\ counter'[Pid(t), id] = 0]_vars

\* C2 witness: a thread that acquired twice and released once still holds
\* the lock, byte range included.
C2_Witness ==
    /\ last.op = "release"
    /\ holds[last.thread][last.id] = 1
    /\ oslock[last.id] = Pid(last.thread)

\* C3: acquire(blocking=False) never waits, and when it returns False the
\* lock object is as the call found it: same counter, same RLock state (not
\* owned by the caller), and the byte range was not touched.
C3_NonBlockingFailure ==
    /\ [](\A t \in Threads :
            (pc[t] \in {"acq_mutex", "acq_lockf", "acq_wait"} /\ ~arg[t].blocking) =>
                pc[t] = "acq_lockf" /\ ENABLED AcquireLockf(t))
    /\ [][\A id \in LockIds : \A t \in Threads :
            (Returned(t, "acquire", id) /\ last'.result = "False") =>
                LET before == IF pc[t] = "idle" THEN Snapshot(Pid(t), id) ELSE saved[t]
                IN  /\ ~last'.blocking
                    /\ counter'[Pid(t), id] = before.counter
                    /\ thread_lock'[Pid(t), id] = before.mutex
                    /\ thread_lock'[Pid(t), id].owner # t
                    /\ holds'[t][id] = 0
                    /\ oslock' = oslock]_vars

\* C3 witness: acquire(False) returned False at lockf (the byte range is
\* owned by another process) and the RLock it had taken is free again.
C3_Witness ==
    /\ last.op = "acquire" /\ ~last.blocking /\ last.result = "False"
    /\ oslock[last.id] \notin {None, Pid(last.thread)}
    /\ thread_lock[Pid(last.thread), last.id] = RLockFree

\* ------------------------------------------------ properties of the store

\* The sum of the listed sizes of the keys in S.
SizeOf(desc, S) == SumSizes(desc, CHOOSE o \in Orderings(S) : TRUE)

\* With a TTL, mtime is older than now minus the TTL.
Older(mtime, now) == expiration_time # NotSet /\ mtime < now - expiration_time

\* C4 (atomicity of set): a get that finds both files of a key while it
\* holds the key's rw lock reads a payload and a metadata record that the
\* same set call wrote.
C4_SetAtomicity ==
    out.name = "get" /\ out.kind = "hit" => out.psid = out.msid

\* C5 (linearization): a get returns the value of the last set on the key
\* whose locked section finished before the get took the rw lock (the stream
\* of that set, at its position, with its dogpile metadata), or a miss if
\* the key holds nothing (never set, deleted, evicted) or has expired.
C5_Linearization ==
    out.name = "get" =>
        IF out.kind = "hit"
        THEN /\ out.expect.kind = "hit"
             /\ out.data = out.expect.value.payload.data
             /\ out.pos = out.expect.value.payload.pos
             /\ out.dogpile_metadata = out.expect.value.metadata
        ELSE /\ out.kind = "miss"
             /\ out.expect.kind = "miss" \/ Older(out.expect.mtime, out.now)

\* C6 (file round trip): a get of a key after a set of it with a stream,
\* the entry neither removed nor expired in between, returns a stream at the
\* position the caller's stream had, which yields the bytes the caller's
\* stream yields from that position on; with file_movable true or false.
C6_FileRoundTrip ==
    out.name = "get" /\ out.expect.asked # NoValue
                     /\ ~Older(out.expect.asked_now, out.now) =>
        /\ out.kind = "hit"
        /\ out.pos = out.expect.asked.payload.pos
        /\ ReadFrom(out.data, out.pos)
             = ReadFrom(out.expect.asked.payload.data, out.expect.asked.payload.pos)

\* C7 (TTL miss): with a TTL, a get whose now_timestamp minus the TTL is
\* later than the last-modified time of the payload file returns NO_VALUE,
\* the files being there or not.
C7_TtlMiss ==
    out.name = "get" /\ Older(out.mtime, out.now) => out.kind = "miss"

\* C7 witness: a get missed on an entry that was set, is still in values/
\* (the payload file has a last-modified time) and has expired.
C7_Witness ==
    /\ out.name = "get" /\ out.kind = "miss"
    /\ out.expect.kind = "hit"
    /\ out.mtime > 0
    /\ Older(out.mtime, out.now)

C11_NoEvictionUnbounded ==
    out.name = "prune" /\ cache_size = NotSet =>
        \A k \in out.listed :
            ~Older(out.desc[k].last_modified, out.now) =>
                /\ k \in out.left
                /\ Len(out.files[k].payload) = 1
                /\ Len(out.files[k].metadata) = 1

\* C11 witness: with neither TTL nor byte budget a prune returned with two
\* entries left whose files total more than any budget of PruneConfigs.
C11_Witness ==
    /\ out.name = "prune" /\ cache_size = NotSet /\ expiration_time = NotSet
    /\ out.listed = Keys /\ out.left = Keys
    /\ \A cfg \in PruneConfigs : out.total > cfg.cache_size

\* C12 (pruning terminates): with a byte budget of 0 bytes or more, the
\* LRU pass of a prune makes at most as many delete attempts as the listing
\* has entries, whether or not an attempt removes anything, and a prune
\* that has started ends, by returning and not with an error.
C12_PruneTerminates ==
    /\ [](\A t \in Threads : call[t].tries <= Cardinality(call[t].listed))
    /\ [](out.name = "prune" => out.tries <= Cardinality(out.listed))
    /\ [](out.kind # "IndexError")
    /\ \A t \in {"t1"} : call[t].at = "prune_ttl" ~> call[t].at # "prune_ttl"

\* C12 witness: a prune over the budget returned after one attempt on each
\* listed entry, every one of them refused, with all the files still there.
C12_Witness ==
    /\ out.name = "prune" /\ cache_size # NotSet
    /\ out.listed = Keys
    /\ out.tries = Cardinality(out.listed)
    /\ out.refused = out.listed
    /\ out.left = out.listed
    /\ out.total > cache_size

C13_ForkIsolation ==
    /\ (rout.op = "get_mutex" /\ rout.thread # None /\ Pid(rout.thread) = Child /\ rout.first)
          => (rout.result = "lock" /\ rout.pid = Child /\ rout.counter = 0)
    /\ (rout.op = "acquire" /\ Pid(rout.thread) = Child /\ rout.pid = Child
           /\ rout.os = Parent)
          => rout.result = "False"

\* C14: two threads of a process that hold the results of lookups of one
\* identifier hold the same object, and objects looked up for different
\* identifiers differ; a lookup returns a lock object.
C14_Interning ==
    /\ \A t \in Threads, u \in Threads :
          (Pid(t) = Pid(u) /\ ref[t].by = "lookup" /\ ref[u].by = "lookup")
          => (heap[Pid(t)][ref[t].obj].id = heap[Pid(u)][ref[u].obj].id
                <=> ref[t].obj = ref[u].obj)
    /\ (rout.op = "get_mutex" /\ distributed_lock = "True") => rout.result = "lock"

\* C15: the lookup of an identifier that follows the loss of a held lock
\* object of that identifier (every reference dropped, release not called)
\* returns a lock object whose is_locked() is False.
C15_ReleasedOnDereference ==
    (rout.op = "get_mutex" /\ rout.leaked) => (rout.result = "lock" /\ rout.counter = 0)

\* C16: acquire or release of a lock object by a thread of a process other
\* than the one that created it raises (RuntimeError), and the step that
\* raises leaves every lock object (counter, RLock) and every byte range
\* lock as it was.
C16_CrossProcessMisuse ==
    /\ []((rout.op \in {"acquire", "release"} /\ rout.pid # Pid(rout.thread))
            => rout.result = "RuntimeError")
    /\ [][rout'.result = "RuntimeError" => (heap' = heap /\ oslock' = oslock)]_vars

\* A thread of the child has called release on the object that the parent
\* held when it forked.
C16_Witness ==
    /\ rout.op = "release"
    /\ rout.result = "RuntimeError"
    /\ Pid(rout.thread) = Child
    /\ rout.pid = Parent
    /\ rout.os = Parent
    /\ heap[Child][rout.obj].counter > 0
    /\ heap[Child][rout.obj].mutex.owner = "u1"

\* C19: with distributed_lock true get_mutex(key) returns a lock object, the
\* one that the registry interns for (dogpile.lock, offset(key)) when it
\* returns; with distributed_lock false or None it returns None.
C19_GetMutex ==
    /\ [](rout.op = "get_mutex"
            => IF distributed_lock = "True"
               THEN rout.result = "lock"
               ELSE rout.result = None /\ rout.obj = 0)
    /\ [][(rout' # rout /\ rout'.op = "get_mutex" /\ rout'.result = "lock")
            => /\ rout'.id = DogpileLock(rout'.key)
               /\ heap'[Pid(rout'.thread)][rout'.obj].id = rout'.id
               /\ registry'[Pid(rout'.thread)].names[rout'.id] = rout'.obj]_vars

\* ------------------------------------------- properties of deadlocks

\* Two processes each hold one byte range and each has made a blocking
\* acquire of the range the other holds.
Crossed ==
    \E t \in Workers, u \in Workers :
        /\ Pid(t) # Pid(u)
        /\ pc[t] \in {"acq_lockf", "acq_wait"}
        /\ pc[u] \in {"acq_lockf", "acq_wait"}
        /\ oslock[arg[t].id] = Pid(u)
        /\ oslock[arg[u].id] = Pid(t)
        /\ \E id \in LockIds : holds[t][id] > 0
        /\ \E id \in LockIds : holds[u][id] > 0

\* Both are asleep in lockf, each for the range of the other.
WaitCycle ==
    \E t \in Threads, u \in Threads :
        /\ Pid(t) # Pid(u)
        /\ pc[t] = "acq_wait"
        /\ pc[u] = "acq_wait"
        /\ oslock[arg[t].id] = Pid(u)
        /\ oslock[arg[u].id] = Pid(t)

\* C17: two processes that each hold one byte range and each make a
\* blocking acquire of the other's never both sleep: one of the acquires
\* raises EDEADLK (a blocking acquire ends with True or with that error,
\* never with False); the step that raises leaves the counter as it was,
\* the RLock free and the byte ranges as they were; and every process ends
\* with 'success' or with the error.
C17_DeadlockSurfaced ==
    /\ [](~WaitCycle)
    /\ []((last.op = "acquire" /\ last.blocking) => last.result \in {"True", "EDEADLK"})
    /\ [][\A t \in Workers :
            (pc[t] = "acq_lockf" /\ pc'[t] = "idle" /\ last'.result = "EDEADLK")
            => /\ counter'[Pid(t), arg[t].id] = saved[t].counter
               /\ counter' = counter
               /\ thread_lock'[Pid(t), arg[t].id] = RLockFree
               /\ holds' = holds
               /\ holds[t][arg[t].id] = 0
               /\ oslock' = oslock]_vars
    /\ (Crossed ~> \E t \in Workers : worker[t].result = "EDEADLK")
    /\ \A t \in Workers : <>(worker[t].result \in {"success", "EDEADLK"})

\* One process ended with the deadlock error, raised while it held its
\* first lock, and the other with 'success' after taking both its locks.
C17_Witness ==
    \E t \in Workers, u \in Workers :
        /\ worker[t].result = "EDEADLK"
        /\ worker[u].result = "success"
        /\ last.thread = u
        /\ last.op = "release"
        /\ \A id \in LockIds : oslock[id] = None

\* ------------------------------------------ properties of independence

\* Lock `id` is taken against thread t: another thread of its process owns
\* the RLock of the lock object, or another process owns the byte range.
BusyFor(t, id) ==
    \/ thread_lock[Pid(t), id].owner \notin {None, t}
    \/ oslock[id] \notin {None, Pid(t)}

GotFor(v) ==
    [kind |-> "hit", data |-> v.payload.data, pos |-> v.payload.pos,
     dogpile_metadata |-> v.metadata]

InAttempt(t) == call[t].at \in {"attempt", "attempt_release", "attempt_raise"}

\* The thread has the rw lock of the key: it holds the RLock and its process
\* the byte range.
HasRwLock(t, k) ==
    /\ holds[t][RwLock(k)] > 0
    /\ thread_lock[Pid(t), RwLock(k)].owner = t
    /\ oslock[RwLock(k)] = Pid(t)

\* C24: a thread in prune never sleeps on a lock; a step of prune that
\* removes a file of a key is made by a thread that has the key's rw lock,
\* while no other thread holds it, and an attempt that finds the lock held
\* by another thread or process leaves both files; and outside
\* attempt_delete_key the pruning thread holds no rw lock and owns no RLock,
\* also after an exception in the removal has ended prune.
C24_AttemptDelete ==
    /\ [](\A t \in AttemptPruners :
            /\ pc[t] \notin {"acq_mutex", "acq_wait"}
            /\ ~InAttempt(t) =>
                  \A id \in RwIds :
                      /\ holds[t][id] = 0
                      /\ thread_lock[Pid(t), id].owner # t
                      /\ pc[t] = "idle")
    /\ [][\A t \in AttemptPruners : \A k \in Keys :
            /\ (call[t].name = "prune" /\ call[t].at # "idle" /\ Files'[k] # Files[k]) =>
                  /\ call[t].attempt = k
                  /\ HasRwLock(t, k)
                  /\ \A u \in Threads \ {t} : holds[u][RwLock(k)] = 0
            /\ (/\ call[t].at = "prune_ttl"
                /\ call'[t].at = "attempt"
                /\ call'[t].attempt = k
                /\ \E u \in Threads \ {t} : holds[u][RwLock(k)] > 0) =>
                  /\ Files'[k] = Files[k]
                  /\ holds'[t][RwLock(k)] = 0
                  /\ pc'[t] = "acq_lockf" => Pid(t) # oslock[RwLock(k)]
            /\ (call[t].at = "attempt" /\ pc[t] = "idle" /\ holds[t][RwLock(k)] = 0
                /\ call[t].attempt = k /\ call'[t].at # "attempt") =>
                  /\ Files'[k] = Files[k]
                  /\ call'[t].at = "prune_ttl"
           ]_vars

\* An exception in the removal has ended prune after the payload file of
\* the key was removed, and the thread no longer has the key's rw lock;
\* another process holds the rw lock of the other key, whose files prune
\* left in place.
C24_Witness ==
    /\ out.name = "prune"
    /\ out.kind = "KeyboardInterrupt"
    /\ out.key = "k1"
    /\ ~payload["k1"].exists
    /\ metadata["k1"].exists
    /\ call["t1"].at = "idle"
    /\ holds["t1"][RwLock("k1")] = 0
    /\ thread_lock["p1", RwLock("k1")] = RLockFree
    /\ oslock[RwLock("k1")] = None
    /\ oslock[RwLock("k2")] = "p2"
    /\ payload["k2"].exists

\* The unexpired keys of the listing that a prune in progress took.
Unexpired(c) == c.listed \ ExpiredKeys(c.desc, c.listed, c.pnow)

\* The thread's prune makes a delete attempt in its LRU pass.
LruAttempt(t) ==
    /\ call[t].at = "prune_ttl"
    /\ call[t].todo = {}
    /\ call'[t].tries = call[t].tries + 1

\* The thread's prune returns.
PruneReturns(t) ==
    /\ call[t].at = "prune_ttl"
    /\ call'[t].at # "prune_ttl"
    /\ out'.kind = "ok"

\* C25: every attempt of the LRU pass is made while the sizes of the
\* entries not yet attempted sum to more than cache_size, on an entry that
\* is no newer than any entry not yet attempted, and the pass ends as soon
\* as that sum is at most cache_size; so the entry attempted is one whose
\* size plus the sizes of all newer unexpired entries exceeds cache_size,
\* and no unexpired entry older than it is still to be attempted.
C25_LruOrder ==
    [][\A t \in Threads :
        LET c == call[t]
            k == c.order[Len(c.order)]
        IN  /\ LruAttempt(t) =>
                  /\ SumSizes(c.desc, c.order) > cache_size
                  /\ \A j \in Elements(call'[t].order) :
                        c.desc[k].last_modified <= c.desc[j].last_modified
                  /\ c.desc[k].size
                       + SizeOf(c.desc, {j \in Unexpired(c) :
                             c.desc[j].last_modified > c.desc[k].last_modified})
                     > cache_size
                  /\ ~\E j \in Elements(call'[t].order) :
                        c.desc[j].last_modified < c.desc[k].last_modified
            /\ (PruneReturns(t) /\ cache_size # NotSet) =>
                  SumSizes(c.desc, c.order) <= cache_size
      ]_vars

\* C25 as amended: the same, with the size of the entry attempted added to
\* the sizes of the unexpired entries not attempted before it, which are
\* the newer ones and those of its own last-modified time that the sort put
\* before it.
C25_Amended ==
    [][\A t \in Threads :
        LET c == call[t]
            k == c.order[Len(c.order)]
        IN  /\ LruAttempt(t) =>
                  /\ SumSizes(c.desc, c.order) > cache_size
                  /\ \A j \in Elements(call'[t].order) :
                        c.desc[k].last_modified <= c.desc[j].last_modified
                  /\ Elements(c.order) \subseteq Unexpired(c)
                  /\ {j \in Unexpired(c) :
                        c.desc[j].last_modified > c.desc[k].last_modified}
                     \subseteq Elements(call'[t].order)
                  /\ c.desc[k].size + SizeOf(c.desc, Elements(call'[t].order))
                     > cache_size
                  /\ ~\E j \in Elements(call'[t].order) :
                        c.desc[j].last_modified < c.desc[k].last_modified
            /\ (PruneReturns(t) /\ cache_size # NotSet) =>
                  SumSizes(c.desc, c.order) <= cache_size
      ]_vars

\* A prune has returned that listed two entries of the same age and made
\* one attempt, which removed one of them.
C25_Witness ==
    /\ out.name = "prune"
    /\ out.tries = 1
    /\ out.listed = Keys
    /\ out.desc["k1"].last_modified = out.desc["k2"].last_modified
    /\ Cardinality(out.left) = 1

\* C26: no step of a get, from the call to the return, changes a payload
\* or metadata file (its existence, its bytes or its modification time),
\* whatever the get returns; and a file that is there goes away only in a
\* step of a set, of prune or of a delete.
C26_GetReadOnly ==
    [][/\ \A t \in Threads :
            (call[t].name = "get" \/ call'[t].name = "get") =>
                payload' = payload /\ metadata' = metadata
       /\ \A k \in Keys :
            (\/ payload[k].exists /\ ~payload'[k].exists
             \/ metadata[k].exists /\ ~metadata'[k].exists) =>
                \E t \in Threads : call[t].name \in {"set", "prune", "delete"}
      ]_vars

\* A get has returned NO_VALUE for an entry that has outlived the TTL, and
\* both its files are there.
C26_Witness ==
    /\ out.name = "get"
    /\ out.kind = "miss"
    /\ call[out.thread].at = "idle"
    /\ payload[out.key].exists
    /\ metadata[out.key].exists
    /\ Older(payload[out.key].mtime, out.now)

\* C27: from the decrement that brings the counter to 0 until release()
\* exits, the releasing thread owns the RLock, so that no other thread of
\* its process holds the lock or is inside lockf for it; when the RLock is
\* given up after an unlock that went through, the process no longer has
\* the byte range; and when release() exits with the error of lockf, the
\* counter is 0, the RLock is free and the thread holds nothing.
C27_ReleaseOrdering ==
    /\ [](\A t \in Threads :
            pc[t] \in {"rel_lockf", "rel_mutex", "rel_raise"} =>
                /\ thread_lock[Pid(t), arg[t].id].owner = t
                /\ counter[Pid(t), arg[t].id] = 0
                /\ \A u \in Threads \ {t} :
                      Pid(u) = Pid(t) =>
                          /\ holds[u][arg[t].id] = 0
                          /\ ~(pc[u] \in {"acq_lockf", "acq_wait", "rel_lockf"}
                               /\ arg[u].id = arg[t].id))
    /\ [](\A t \in Threads : pc[t] = "rel_mutex" => oslock[arg[t].id] # Pid(t))
    /\ [][\A t \in Threads :
            (pc[t] = "rel_raise" /\ pc'[t] = "idle") =>
                /\ last'.result = "IOError"
                /\ counter'[Pid(t), arg[t].id] = 0
                /\ thread_lock'[Pid(t), arg[t].id] = RLockFree
                /\ holds'[t][arg[t].id] = 0]_vars

\* A release has ended with the error of lockf while a second thread of
\* the process was asleep on the RLock, which is free now; the process
\* still has the byte range.
C27_Witness ==
    /\ last.op = "release"
    /\ last.result = "IOError"
    /\ last.thread = "t1"
    /\ pc["t2"] = "acq_mutex"
    /\ thread_lock["p1", RwLock("k1")] = RLockFree
    /\ counter["p1", RwLock("k1")] = 0
    /\ oslock[RwLock("k1")] = "p1"

\* C28: the lock objects of the process all have the same file handle; the
\* handle in _registry is never replaced and no handle is ever closed; and
\* the process loses a byte range only in the step in which the thread
\* that holds the lock makes its final release.
C28_OneHandle ==
    /\ [](\A t \in FhThreads, u \in FhThreads :
            (fh.th[t].obj # 0 /\ fh.th[u].obj # 0) => fh.th[t].obj = fh.th[u].obj)
    /\ [](fh.closed = 0)
    /\ [][fh.registry # 0 => fh'.registry = fh.registry]_vars
    /\ [][\A id \in RwIds :
            (oslock[id] = FhPid /\ oslock'[id] # FhPid) =>
                \E t \in FhThreads : holds[t][id] > 0 /\ holds'[t][id] = 0]_vars

\* The thread owns the lock of the identifier: from the moment acquire has
\* the RLock until release has given it up, or while it counts an acquire.
OwnsLock(t, id) == thread_lock[Pid(t), id].owner = t \/ holds[t][id] > 0

\* t cannot go on before u gives up a lock: t sleeps on an RLock that u
\* owns, or in lockf for a byte range that the process of u has through u.
WaitsFor(t, u) ==
    /\ t # u
    /\ \/ pc[t] = "acq_mutex" /\ thread_lock[Pid(t), arg[t].id].owner = u
       \/ /\ pc[t] = "acq_wait"
          /\ oslock[arg[t].id] = Pid(u)
          /\ OwnsLock(u, arg[t].id)

\* A cycle of waiting threads, of any length that three threads allow.
CoreWaitCycle ==
    \E t \in Threads, u \in Threads :
        /\ WaitsFor(t, u)
        /\ \/ WaitsFor(u, t)
           \/ \E v \in Threads : WaitsFor(u, v) /\ WaitsFor(v, t)

\* C29: a thread never owns the rw locks of two keys; a thread that makes a
\* blocking acquire of a rw lock (the with block of get, set or delete)
\* owns no rw lock when it makes it, and a thread that waits for one owns
\* none but the RLock of the lock it waits for; the acquires of prune are
\* never blocking; and no cycle of waiting threads is ever reached.
C29_DeadlockFree ==
    /\ [](\A t \in Threads : Cardinality({id \in RwIds : OwnsLock(t, id)}) <= 1)
    /\ [][\A t \in Threads :
            (pc[t] = "idle" /\ arg'[t].op = "acquire" /\ arg'[t].blocking)
            => \A id \in RwIds : ~OwnsLock(t, id)]_vars
    /\ [](\A t \in Threads :
            pc[t] \in {"acq_mutex", "acq_wait"}
            => \A id \in RwIds : OwnsLock(t, id) => (id = arg[t].id /\ holds[t][id] = 0))
    /\ [](\A t \in Threads :
            (call[t].at = "attempt" /\ pc[t] # "idle") => ~arg[t].blocking)
    /\ [](~CoreWaitCycle)

\* A thread sleeps in a blocking acquire of a rw lock that a thread of the
\* other process holds, a thread of its own process sleeps on the RLock
\* behind it, and the holder is inside its call, waiting for nothing.
C29_Witness ==
    \E t \in Threads, u \in Threads, w \in Threads :
        /\ pc[t] = "acq_wait" /\ arg[t].blocking
        /\ WaitsFor(t, u)
        /\ pc[w] = "acq_mutex" /\ WaitsFor(w, t)
        /\ holds[u][arg[t].id] > 0
        /\ pc[u] = "idle"
        /\ call[u].at # "idle"

\* C30: the pid check and the reset of ProcessLocalRegistry.get are one
\* atomic step for the threads of a process: no two threads are between
\* the check and the end of the reset together, no thread reads
\* self.registry while another is between the two stores, a reset never
\* replaces a NameRegistry that holds a lock object made by this process,
\* and two threads that hold the results of lookups of one identifier
\* hold one object.
C30_AtomicReset ==
    /\ [](\A t \in Threads, u \in Threads :
            (t # u /\ Pid(t) = Pid(u) /\ look[t].at \in {"reg_new", "reg_store"})
            => look[u].at = "idle")
    /\ [][\A t \in Threads :
            (look[t].at = "reg_store" /\ look'[t].at = "reg_get")
            => \A id \in RegIds :
                  registry[Pid(t)].names[id] # 0
                  => heap[Pid(t)][registry[Pid(t)].names[id]].pid # Pid(t)]_vars
    /\ [](\A t \in Threads, u \in Threads :
            (Pid(t) = Pid(u) /\ ref[t].by = "lookup" /\ ref[u].by = "lookup"
                /\ heap[Pid(t)][ref[t].obj].id = heap[Pid(u)][ref[u].obj].id)
            => ref[t].obj = ref[u].obj)

\* C31: with file_movable true, a set whose stream does not give the path
\* of an existing file does not raise: it ends as every other set does,
\* with the stream's bytes in the payload file of the key.
C31_MovableFallback ==
    (out.name = "set" /\ file_movable /\ out.value # NoValue
        /\ out.value.payload.name # "path")
    => /\ out.kind = "ok"
       /\ out.files[out.key].payload = <<out.value.payload.data>>

\* C32: the step in which a set raises leaves the two files of its key as
\* the last locked section that went through left them: the metadata and
\* the payload of the set that stored the entry, or no file when the key
\* held nothing; and a get never finds the payload of one set with the
\* metadata of another.
C32_FailedSetChangesNothing ==
    /\ [][(out' # out /\ out'.name = "set" /\ out'.kind # "ok")
            => LET k == out'.key
               IN  IF committed[k].kind = "hit"
                   THEN /\ metadata'[k].exists /\ metadata'[k].sid = committed[k].sid
                        /\ payload'[k].exists /\ payload'[k].sid = committed[k].sid
                   ELSE ~metadata'[k].exists /\ ~payload'[k].exists]_vars
    /\ []((out.name = "get" /\ out.kind = "hit") => out.psid = out.msid)

\* The step is one of the prune that thread t makes, and it removes the
\* payload file of key k.
PruneRemoves(t, k) ==
    /\ call[t].at \in {"prune_ttl", "attempt"}
    /\ call'[t] # call[t]
    /\ payload[k].exists
    /\ ~payload'[k].exists

\* C33: the entry that a prune removes is the entry that its listing
\* described (same last-modified time, same size), and when it is removed
\* it has outlived the TTL or the files in values/ exceed cache_size.
C33_PruneOnlyListed ==
    [][\A t \in Threads, k \in Keys :
          PruneRemoves(t, k)
          => /\ KeysWithDesc[k] = call[t].desc[k]
             /\ \/ Older(LastModified(k), clock)
                \/ cache_size # NotSet /\ TotalSize > cache_size]_vars

\* The acquires of the threads of process p on lock id that returned True
\* and were not yet followed by a release of the same thread.
RECURSIVE HeldBy(_, _, _)
HeldBy(p, id, T) ==
    IF T = {}
    THEN 0
    ELSE LET t == CHOOSE x \in T : TRUE
         IN  (IF Pid(t) = p THEN holds[t][id] ELSE 0) + HeldBy(p, id, T \ {t})

\* C34: a release by a thread that does not hold the lock changes nothing:
\* the counter is never negative and stays the number of acquires that
\* their threads have not released, and a thread that holds the lock (one
\* that held it before, or one that acquired it later) has the byte range
\* locked for its process.
C34_MisplacedRelease ==
    /\ \A p \in Procs, id \in MisuseIds :
          counter[p, id] >= 0 /\ counter[p, id] = HeldBy(p, id, Threads)
    /\ \A t \in Threads, id \in MisuseIds : holds[t][id] > 0 => oslock[id] = Pid(t)

\* is_locked() of the lock object that the registry of process p interns
\* for the identifier; no object is interned when none was looked up or
\* the last one has died.
InternedLocked(p, id) ==
    /\ registry[p].names[id] # 0
    /\ heap[p][registry[p].names[id]].counter > 0

\* C35: while no thread of a process is inside a registry lookup, an
\* acquire or a release, and the registry is the process's own, the process
\* has the byte range of an identifier locked exactly if the lock object
\* interned for the identifier has is_locked() true.
C35_LockStateMatchesOs ==
    \A p \in Procs, id \in RegIds :
        (/\ registry[p].pid = p
         /\ registry[p].made
         /\ \A t \in Threads : Pid(t) = p => look[t].at = "idle")
        => (oslock[id] = p <=> InternedLocked(p, id))

\* C36: while every thread keeps to the region's protocol, no acquire of a
\* dogpile lock or of a rw lock ends with EDEADLK.
C36_NoSpuriousDeadlock == last.result # "EDEADLK"

InOperation(t) == pc[t] # "idle" \/ call[t].at # "idle"

EventuallyReleases(t) == \A k \in RegionKeys : []<>(holds[t][DogpileLock(k)] = 0)

C38_FalseReleasesMutex ==
    (/\ last.op = "acquire"
     /\ ~last.blocking
     /\ last.result = "False"
     /\ pc[last.thread] = "idle")
    => thread_lock[Pid(last.thread), last.id].owner # last.thread

\* C39: in the oldest backend, a step that acquires or releases the lock of
\* another key leaves the byte range of a held lock with its process: while
\* a thread's lock object has its descriptor, a step that changes no lock
\* object of that identifier does not take the range from the process.
C39_OtherKeyKeepsLock ==
    [][\A t \in Threads, id \in OldestIds :
          (/\ fds[t][id] = "open"
           /\ oslock[id] = Pid(t)
           /\ \A u \in Threads : fds'[u][id] = fds[u][id])
          => oslock'[id] = Pid(t)]_vars

\* The entries at least as new as k, k among them, by the listing's sizes.
NewerTotal(k) ==
    LET desc == OldestKeysWithDesc
        newer == {j \in OldestListed : desc[j].last_modified >= desc[k].last_modified}
    IN  SumSizes(desc, CHOOSE o \in Orderings(newer) : TRUE)

\* C40: the oldest backend's _prune leaves an entry in place that has not
\* expired and that fits the budget together with all the entries as new as
\* it or newer.
C40_NewestSurvive ==
    [][\A t \in OldestSetters, k \in Keys :
          (/\ call[t].at = "idle"
           /\ call'[t].at = "oldest_write"
           /\ payload[k].exists
           /\ ~Older(LastModified(k), clock)
           /\ NewerTotal(k) <= cache_size)
          => payload'[k].exists]_vars

====
